---------------------------- MODULE Spec2Model ----------------------------
(***************************************************************************)
(* p1_multicast: the P1 telegram decoder of P1listener.py (the producer)   *)
(* and the aggregation engine of P1reader.py (the consumer).               *)
(*                                                                         *)
(* Text is modelled as sequences of one-character strings, so that         *)
(* startswith, len, slicing, split and the two regular expressions are     *)
(* computed character by character as Python computes them.                *)
(***************************************************************************)
EXTENDS Integers, Sequences, FiniteSets, TLC

(***************************************************************************)
(* Bounds of the model.                                                    *)
(***************************************************************************)
\* lines read by one producer run
MaxLines == 4
\* the largest power reading drawn, in W
MaxMilli == 1030
\* the largest current reading drawn, in A
MaxAmp == 12
\* the longest text drawn after an OBIS code, of the characters ( ) 7
MaxTail == 5
\* datagrams received by one consumer run
MaxIngest == 3
\* the largest frame-number a datagram carries
MaxFrame == 4
\* datagrams received by one consumer run on a steady stream
MaxStream == 122
\* datagrams received by one consumer run around the ends of intervals
MaxInterval == 3
\* datagrams received by one consumer run over whole intervals
MaxWindow == 7
\* lines read by one producer run on a few kinds of line
MaxFrameLines == 5
MaxFailures == 2
MaxRetryLines == 3
MaxLoop == 5
MaxExport == 6
MaxTurns == 3
\* seconds time.time() may advance between two of its calls
Ticks == {0, 1}

(***************************************************************************)
(* Characters and decimal literals.                                        *)
(***************************************************************************)
Digits == {"0", "1", "2", "3", "4", "5", "6", "7", "8", "9"}

DigitVal(c) ==
    CASE c = "0" -> 0 [] c = "1" -> 1 [] c = "2" -> 2 [] c = "3" -> 3
      [] c = "4" -> 4 [] c = "5" -> 5 [] c = "6" -> 6 [] c = "7" -> 7
      [] c = "8" -> 8 [] c = "9" -> 9

\* s.startswith(c) for a one-character c
StartsWith(s, c) == Len(s) >= 1 /\ s[1] = c

\* sub in s, for a non-empty sub
Contains(s, sub) ==
    \E i \in 1..(Len(s) - Len(sub) + 1) : SubSeq(s, i, i + Len(sub) - 1) = sub

\* s.split('*')[0]: the text before the first '*', or all of s
SplitStar0(s) ==
    SubSeq(s, 1, Cardinality({i \in 1..Len(s) : \A j \in 1..i : s[j] # "*"}))

RECURSIVE Pow10(_)
Pow10(d) == IF d = 0 THEN 1 ELSE 10 * Pow10(d - 1)

RECURSIVE Pow2(_)
Pow2(k) == IF k = 0 THEN 1 ELSE 2 * Pow2(k - 1)

RECURSIVE DigitsToNat(_)
DigitsToNat(s) ==
    IF Len(s) = 0 THEN 0
    ELSE 10 * DigitsToNat(SubSeq(s, 1, Len(s) - 1)) + DigitVal(s[Len(s)])

AllDigits(s) == \A i \in 1..Len(s) : s[i] \in Digits

\* int(s) accepts a non-empty run of decimal digits (of the characters the
\* model draws: no sign, blank or underscore occurs in a value)
IsIntLiteral(s) == Len(s) >= 1 /\ AllDigits(s)

\* float(s) accepts digits with at most one '.', and at least one digit (of
\* the characters the model draws: no sign, exponent, inf or nan occurs)
IsFloatLiteral(s) ==
    /\ Len(s) >= 1
    /\ \A i \in 1..Len(s) : s[i] \in Digits \cup {"."}
    /\ Cardinality({i \in 1..Len(s) : s[i] = "."}) <= 1
    /\ \E i \in 1..Len(s) : s[i] \in Digits

\* the digits of s, its '.' dropped
DropDot(s) == SelectSeq(s, LAMBDA c : c # ".")

\* the digits of s after its '.'
FracLen(s) == Cardinality({i \in 1..Len(s) : \E p \in 1..(i - 1) : s[p] = "."})

\* the decimal literal s as mant / 10^frac
DecOf(s) == [mant |-> DigitsToNat(DropDot(s)), frac |-> FracLen(s)]

\* a decimal with its trailing zeros removed: the double nearest to 226.20 is
\* the double nearest to 226.2
RECURSIVE NormDec(_)
NormDec(q) ==
    IF q.frac > 0 /\ q.mant % 10 = 0
    THEN NormDec([mant |-> q.mant \div 10, frac |-> q.frac - 1])
    ELSE q

(***************************************************************************)
(* int(1000 * float(s)) in IEEE-754 binary64, round-to-nearest-even.       *)
(*                                                                         *)
(* Let the literal denote n/1000 for a natural n >= 1 (n < 2^21), let      *)
(* 2^k <= n < 2^(k+1) and 2^kp <= n/1000 < 2^(kp+1), so k - kp is 9 or     *)
(* 10.  float(s) is the multiple of 2^(kp-52) nearest to n/1000; with      *)
(* r = (n * 2^(52-kp)) mod 1000 it lies r/1000 units below n/1000 when     *)
(* r < 500 and above it when r > 500 (r = 500 cannot occur).  In the       *)
(* first case the exact product 1000 * float(s) is n - r * 2^(kp-52); it   *)
(* rounds to the double just below n, and int() then gives n - 1, exactly  *)
(* when that distance exceeds half the gap below n: 2^(k-53), or 2^(k-54)  *)
(* for n a power of two.  Both come to r > 256, the first only when        *)
(* k - kp = 9.  (At r = 256 the tie goes to n, whose mantissa is even.)    *)
(***************************************************************************)
RECURSIVE Log2(_)
Log2(n) == IF n < 2 THEN 0 ELSE 1 + Log2(n \div 2)

RECURSIVE Pow2Mod1000(_)
Pow2Mod1000(m) == IF m = 0 THEN 1 ELSE (2 * Pow2Mod1000(m - 1)) % 1000

IsPow2(n) == Pow2(Log2(n)) = n

\* k - kp = 9, that is 1000 * 2^(k-9) <= n
GapNine(n) == 1000 * Pow2(Log2(n)) <= 512 * n

\* kp
FloatExp(n) == IF GapNine(n) THEN Log2(n) - 9 ELSE Log2(n) - 10

\* r
FloatRem(n) == ((n % 1000) * Pow2Mod1000(52 - FloatExp(n))) % 1000

\* 1000 * float(n/1000) is a double below n
FloatShort(n) ==
    /\ n >= 1
    /\ FloatRem(n) \in 257..499
    /\ (GapNine(n) \/ IsPow2(n))

\* int(1000 * float(n/1000)) for a natural n
MilliExact(n) == IF FloatShort(n) THEN n - 1 ELSE n

\* int(1000 * float(mant / unit)): when the product is no integer it lies
\* further from one than any rounding moves it, and int() drops the fraction
MilliOf(mant, unit) ==
    IF (mant * 1000) % unit = 0
    THEN MilliExact((mant * 1000) \div unit)
    ELSE (mant * 1000) \div unit

MilliDec(q) == MilliOf(q.mant, Pow10(q.frac))

\* int(1000 * float(s)) for a float literal s
Milli(s) == MilliDec(DecOf(s))

(***************************************************************************)
(* Decoded values: a Python int, float or str; Raised stands for the       *)
(* ValueError of float() or int() on text that is no number.               *)
(***************************************************************************)
IntVal(n) == [t |-> "int", n |-> n, e |-> 0, s |-> << >>]
FloatVal(q) == [t |-> "float", n |-> q.mant, e |-> q.frac, s |-> << >>]
StrVal(s) == [t |-> "str", n |-> 0, e |-> 0, s |-> s]
Raised == [t |-> "raise", n |-> 0, e |-> 0, s |-> << >>]

\* SlimmeMeter.parse_p1_value
\* ToMilli without the factor 1000: int(float(lead))
ToMilliUnscaled(lead) ==
    IF IsFloatLiteral(lead)
    THEN IntVal(DecOf(lead).mant \div Pow10(DecOf(lead).frac))
    ELSE Raised

\* int(1000 * float(lead))
ToMilli(lead) == IF IsFloatLiteral(lead) THEN IntVal(Milli(lead)) ELSE Raised

\* float(lead)
ToFloat(lead) ==
    IF IsFloatLiteral(lead) THEN FloatVal(NormDec(DecOf(lead))) ELSE Raised

\* int(lead)
ToInt(lead) == IF IsIntLiteral(lead) THEN IntVal(DigitsToNat(lead)) ELSE Raised

\* SlimmeMeter.parse_p1_value
parse_p1_value(value) ==
    IF Contains(value, <<"*", "m", "3">>) THEN ToMilli(SplitStar0(value))
    ELSE IF Contains(value, <<"*", "k", "W">>) THEN ToMilli(SplitStar0(value))
    ELSE IF Contains(value, <<"*", "V">>) THEN ToFloat(SplitStar0(value))
    ELSE IF Contains(value, <<"*", "A">>) THEN ToInt(SplitStar0(value))
    ELSE StrVal(value)

(***************************************************************************)
(* P1_ONE_VALUE_RGX and P1_TWO_VALUES_RGX, applied with .search(line):     *)
(* the leftmost position at which the pattern matches.  Every \d+ of the   *)
(* key is followed by a character that is no digit, so from a given start  *)
(* the key is the maximal digit runs; a value holds no '(' and the         *)
(* pattern ends at the end of the line, so the lazy [^(]*? has one         *)
(* possible extent.                                                        *)
(***************************************************************************)
\* the index after the run of digits of s that starts at i (i when none)
RECURSIVE DigitsEnd(_, _)
DigitsEnd(s, i) ==
    IF i <= Len(s) /\ s[i] \in Digits THEN DigitsEnd(s, i + 1) ELSE i

\* \d+ then the character sep, from i, the run ending before j: the index
\* after sep, 0 when there is no match
RunSep(s, i, j, sep) ==
    IF i >= 1 /\ j > i /\ j <= Len(s) /\ s[j] = sep THEN j + 1 ELSE 0

RunThen(s, i, sep) == RunSep(s, i, DigitsEnd(s, i), sep)

\* \d+ sep, once for each sep of seps, from i: the index after the last sep
RECURSIVE RunsThen(_, _, _)
RunsThen(s, i, seps) ==
    IF i = 0 \/ seps = << >> THEN i
    ELSE RunsThen(s, RunThen(s, i, Head(seps)), Tail(seps))

KeySeps == <<"-", ":", ".", ".", "(">>

\* (?P<key>\d+\-\d+:\d+\.\d+\.\d+)\( from i: the index of the '(', 0 when no match
KeyParen(s, i) == IF i = 0 THEN 0 ELSE RunsThen(s, i, KeySeps) - 1

NoParen(s, lo, hi) == \A j \in lo..hi : s[j] # "("

\* ValueToEnd with .*? for [^(]*?: a value may hold a '('
ValueToEndAnyChar(s, p) ==
    /\ p > 0
    /\ Len(s) > p
    /\ s[Len(s)] = ")"

\* (?P<value>[^(]*?)\)$ after the '(' at p
ValueToEnd(s, p) ==
    /\ p > 0
    /\ Len(s) > p
    /\ s[Len(s)] = ")"
    /\ NoParen(s, p + 1, Len(s) - 1)

\* P1_ONE_VALUE_RGX matches s from i
OneValueAt(s, i) == ValueToEnd(s, KeyParen(s, i))

\* P1_ONE_VALUE_RGX.search(line) is not None
P1_ONE_VALUE_RGX(line) == \E i \in 1..Len(line) : OneValueAt(line, i)

\* where the leftmost match starts
OneValueStart(line) ==
    1 + Cardinality({i \in 1..Len(line) : \A j \in 1..i : ~OneValueAt(line, j)})

OneGroupsAt(line, i, p) ==
    [key |-> SubSeq(line, i, p - 1), value |-> SubSeq(line, p + 1, Len(line) - 1)]

OneGroupsFrom(line, i) == OneGroupsAt(line, i, KeyParen(line, i))

\* the groups 'key' and 'value' of the one-value match
OneValueGroups(line) == OneGroupsFrom(line, OneValueStart(line))

\* the index of the first '(' after the one at p (past the end when none)
SecondParen(s, p) ==
    p + 1 + Cardinality({j \in (p + 1)..Len(s) : NoParen(s, p + 1, j)})

\* (?P<value1>[^(]*?)\)\( after the '(' at p, the second '(' at q
ValueToParen(s, p, q) ==
    /\ p > 0
    /\ q <= Len(s)
    /\ q - 1 > p
    /\ s[q - 1] = ")"

TwoValuesFrom(s, p, q) == ValueToParen(s, p, q) /\ ValueToEnd(s, q)

TwoValuesParen(s, p) == TwoValuesFrom(s, p, SecondParen(s, p))

\* P1_TWO_VALUES_RGX matches s from i
TwoValuesAt(s, i) == TwoValuesParen(s, KeyParen(s, i))

\* P1_TWO_VALUES_RGX.search(line) is not None
P1_TWO_VALUES_RGX(line) == \E i \in 1..Len(line) : TwoValuesAt(line, i)

\* where the leftmost match starts
TwoValuesStart(line) ==
    1 + Cardinality({i \in 1..Len(line) : \A j \in 1..i : ~TwoValuesAt(line, j)})

TwoGroupsAt(line, i, p, q) ==
    [key |-> SubSeq(line, i, p - 1),
     value1 |-> SubSeq(line, p + 1, q - 2),
     value2 |-> SubSeq(line, q + 1, Len(line) - 1)]

TwoGroupsParen(line, i, p) == TwoGroupsAt(line, i, p, SecondParen(line, p))

TwoGroupsFrom(line, i) == TwoGroupsParen(line, i, KeyParen(line, i))

\* the groups 'key', 'value1' and 'value2' of the two-values match
TwoValuesGroups(line) == TwoGroupsFrom(line, TwoValuesStart(line))

(***************************************************************************)
(* Python dicts: functions on the set of keys present.                     *)
(***************************************************************************)
EmptyDict == [k \in {} |-> FALSE]

Put(d, k, v) == [x \in (DOMAIN d) \cup {k} |-> IF x = k THEN v ELSE d[x]]

\* the keys of the telegram dict that are no OBIS keys
HeaderKey == <<"h","e","a","d","e","r">>
ChecksumKey == <<"c","h","e","c","k","s","u","m">>

(***************************************************************************)
(* Lines the serial port delivers (read_line returns them stripped).       *)
(***************************************************************************)
HeaderISK5 == <<"/","I","S","K","5","\\","2","M","5","5","0","T","-","1","0","1","3">>
HeaderOther == <<"/","X","S","2","1","0">>
LinePowerIn == <<"1","-","0",":","1",".","7",".","0","(","0","0",".","5","0","0","*","k","W",")">>
LinePowerOut == <<"1","-","0",":","2",".","7",".","0","(","0","0",".","1","0","0","*","k","W",")">>
LineGas == <<"0","-","1",":","2","4",".","2",".","1","(","2","1","S",")","(","0","0",".","1","3","5","*","m","3",")">>
LineEnd1234 == <<"!","1","2","3","4">>
LineEndA0F3 == <<"!","A","0","F","3">>
LineEndLong == <<"!","1","2","3","4","5">>
LineEmpty == << >>
LineNoNumber == <<"1","-","0",":","1",".","7",".","0","(","*","k","W",")">>

Lines ==
    {HeaderISK5, HeaderOther, LinePowerIn, LinePowerOut, LineGas, LineEnd1234,
     LineEndA0F3, LineEndLong, LineEmpty, LineNoNumber}

(***************************************************************************)
(* Field lines of one frame: every reading of a range, written as the      *)
(* meter writes it.                                                        *)
(***************************************************************************)
KeyPowerIn == <<"1","-","0",":","1",".","7",".","0">>
KeyPowerOut == <<"1","-","0",":","2",".","7",".","0">>
KeyGas == <<"0","-","1",":","2","4",".","2",".","1">>
KeyVoltage == <<"1","-","0",":","3","2",".","7",".","0">>
KeyCurrent == <<"1","-","0",":","3","1",".","7",".","0">>

DigitChar(d) == <<"0", "1", "2", "3", "4", "5", "6", "7", "8", "9">>[d + 1]

\* n in w decimal digits, zeros leading
RECURSIVE Fmt(_, _)
Fmt(n, w) == IF w = 0 THEN << >> ELSE Fmt(n \div 10, w - 1) \o <<DigitChar(n % 10)>>

\* n thousandths as dd.ddd
Thousandths(n) == Fmt(n \div 1000, 2) \o <<".">> \o Fmt(n % 1000, 3)

\* n tenths as ddd.d
Tenths(n) == Fmt(n \div 10, 3) \o <<".">> \o Fmt(n % 10, 1)

\* 1-0:1.7.0(dd.ddd*kW)
PowerLine(n) == KeyPowerIn \o <<"(">> \o Thousandths(n) \o <<"*", "k", "W", ")">>

\* 0-1:24.2.1(21S)(dd.ddd*m3)
GasLine(n) ==
    KeyGas \o <<"(", "2", "1", "S", ")", "(">> \o Thousandths(n) \o <<"*", "m", "3", ")">>

\* 1-0:32.7.0(ddd.d*V)
VoltageLine(n) == KeyVoltage \o <<"(">> \o Tenths(n) \o <<"*", "V", ")">>

\* 1-0:31.7.0(ddd*A)
CurrentLine(n) == KeyCurrent \o <<"(">> \o Fmt(n, 3) \o <<"*", "A", ")">>

LineEnergy == <<"1","-","0",":","1",".","8",".","1","(","0","0","0","0","0","1",".","6","5","1","*","k","W","h",")">>
LineTariff == <<"0","-","0",":","9","6",".","1","4",".","0","(","0","0","0","2",")">>
LineNoValue == <<"1","-","0",":","9","9",".","9","7",".","0","(",")">>
LineTimestamp == <<"0","-","0",":","1",".","0",".","0","(","2","1","0","6","0","8","1","3","0","0","4","6","S",")">>
LineHalfWatt == <<"1","-","0",":","1",".","7",".","0","(","0",".","0","0","0","5","*","k","W",")">>
LineHalfAmp == <<"1","-","0",":","3","1",".","7",".","0","(","1",".","5","*","A",")">>
LineLedByX == <<"x","1","-","0",":","1",".","7",".","0","(","0","0",".","5","0","0","*","k","W",")">>
LineGasNoNumber == <<"0","-","1",":","2","4",".","2",".","1","(","2","1","S",")","(","*","m","3",")">>

\* an OBIS code and up to MaxTail of the characters ( ) 7
TailLines ==
    {KeyPowerIn \o t : t \in UNION {[1..k -> {"(", ")", "7"}] : k \in 1..MaxTail}}

FieldLines ==
    {PowerLine(n) : n \in 0..MaxMilli}
        \cup {GasLine(n) : n \in {0, 135, 1001, 6135}}
        \cup {VoltageLine(n) : n \in 2255..2265}
        \cup {CurrentLine(n) : n \in 0..MaxAmp}
        \cup {LineEnergy, LineTariff, LineNoValue, LineTimestamp, LineHalfWatt,
              LineHalfAmp, LineLedByX, LineGasNoNumber, LineNoNumber, LineEmpty,
              LineEndLong, HeaderOther}
        \cup TailLines

(***************************************************************************)
(* The producer: SlimmeMeter.read_datagram of P1listener.py.               *)
(***************************************************************************)
VARIABLES
    first_line_read,   \* the decoder is InFrame
    data,              \* the telegram being built: meta and telegram dicts
    datagram_counter,  \* frames started
    listener,          \* "running", "sleeping" at line 132, "crashed" by an
                       \* uncaught exception, or "exited" by SystemExit
    signals,           \* the SIGINT / SIGUSR1 signals delivered
    clock,             \* the last value time.time() returned, in seconds
    sent,              \* the messages handed to sock.sendto, in order
    lines_in,          \* the lines read_line has returned, in order
    log                \* the calls of logging.debug / logging.warning, in order

lvars == <<first_line_read, data, datagram_counter, listener, signals, clock, sent, lines_in, log>>

NewData == [meta |-> EmptyDict, telegram |-> EmptyDict]

ListenerInit ==
    /\ first_line_read = FALSE
    /\ data = NewData
    /\ datagram_counter = 0
    /\ listener = "running"
    /\ signals = 0
    /\ clock = 0
    /\ sent = << >>
    /\ lines_in = << >>
    /\ log = << >>

\* line 157: read_line returns the next line of the port
ReadLine(line) ==
    /\ listener = "running"
    /\ lines_in' = Append(lines_in, line)
    /\ signals' = signals

\* line 132: time.sleep(10)
RetryDelay == 10

\* line 131: logging.error
ReadError == "Seriele poort kan niet gelezen worden"

\* the calls of line 131 so far
ReadErrors == Cardinality({i \in 1..Len(log) : log[i] = ReadError})

\* ReadFailure with the exception of ser.readline left uncaught
ReadFailureFatal ==
    /\ listener = "running"
    /\ ReadErrors < MaxFailures
    /\ log' = Append(log, ReadError)
    /\ listener' = "crashed"
    /\ UNCHANGED <<first_line_read, data, datagram_counter, signals, clock, sent, lines_in>>

\* lines 129-131: ser.readline raises, the error is logged
ReadFailure ==
    /\ listener = "running"
    /\ ReadErrors < MaxFailures
    /\ log' = Append(log, ReadError)
    /\ listener' = "sleeping"
    /\ UNCHANGED <<first_line_read, data, datagram_counter, signals, clock, sent, lines_in>>

\* lines 132-133, 126: the sleep ends and the read is tried again
Retry ==
    /\ listener = "sleeping"
    /\ clock' = clock + RetryDelay
    /\ listener' = "running"
    /\ UNCHANGED <<first_line_read, data, datagram_counter, signals, sent, lines_in, log>>

\* line 134: the bytes read are not UTF-8, decode raises UnicodeDecodeError
\* outside the try
DecodeError ==
    /\ listener = "running"
    /\ listener' = "crashed"
    /\ UNCHANGED <<first_line_read, data, datagram_counter, signals, clock, sent, lines_in, log>>

\* lines 58-59 during line 129: do_exit raises SystemExit inside the try and
\* the bare except of line 130 takes it as a failed read
SignalInRead ==
    /\ listener = "running"
    /\ ReadErrors < MaxFailures
    /\ signals' = signals + 1
    /\ log' = Append(log, ReadError)
    /\ listener' = "sleeping"
    /\ UNCHANGED <<first_line_read, data, datagram_counter, clock, sent, lines_in>>

\* lines 58-59 during line 132: SystemExit is raised in the except block and
\* nothing catches it (line 279 names KeyboardInterrupt only)
SignalInSleep ==
    /\ listener = "sleeping"
    /\ signals' = signals + 1
    /\ listener' = "exited"
    /\ UNCHANGED <<first_line_read, data, datagram_counter, clock, sent, lines_in, log>>

\* FrameStart without line 159: the counter is not advanced
FrameStartNoCount(line, dt) ==
    /\ ReadLine(line)
    /\ ~first_line_read
    /\ StartsWith(line, "/")
    /\ clock' = clock + dt
    /\ data' = [meta |-> Put(Put(data.meta, "frame-start-time", clock'),
                             "frame-number", datagram_counter),
                telegram |-> Put(data.telegram, HeaderKey, StrVal(line))]
    /\ first_line_read' = TRUE
    /\ log' = Append(log, "First line found")
    /\ UNCHANGED <<datagram_counter, listener, sent>>


\* FrameStart without line 161: the header is not stored
FrameStartNoHeader(line, dt) ==
    /\ ReadLine(line)
    /\ ~first_line_read
    /\ StartsWith(line, "/")
    /\ datagram_counter' = datagram_counter + 1
    /\ clock' = clock + dt
    /\ data' = [data EXCEPT !.meta = Put(Put(data.meta, "frame-start-time", clock'),
                                         "frame-number", datagram_counter')]
    /\ first_line_read' = TRUE
    /\ log' = Append(log, "First line found")
    /\ UNCHANGED <<listener, sent>>

\* lines 158-165: the first line of a frame
FrameStart(line, dt) ==
    /\ ReadLine(line)
    /\ ~first_line_read
    /\ StartsWith(line, "/")
    /\ datagram_counter' = datagram_counter + 1
    /\ clock' = clock + dt
    /\ data' = [meta |-> Put(Put(data.meta, "frame-start-time", clock'),
                             "frame-number", datagram_counter'),
                telegram |-> Put(data.telegram, HeaderKey, StrVal(line))]
    /\ first_line_read' = TRUE
    /\ log' = Append(log, "First line found")
    /\ UNCHANGED <<listener, sent>>

\* lines 166-168: a line outside a frame
UnexpectedLine(line) ==
    /\ ReadLine(line)
    /\ ~first_line_read
    /\ ~StartsWith(line, "/")
    /\ log' = Append(log, "Unexpected line")
    /\ UNCHANGED <<first_line_read, data, datagram_counter, listener, clock, sent>>

\* the telegram sendto is given at line 176
Message(line, now) ==
    [meta |-> Put(Put(data.meta, "frame-end-time", now),
                  "frame-time-duration", 1000 * (now - data.meta["frame-start-time"])),
     telegram |-> Put(data.telegram, ChecksumKey, StrVal(SubSeq(line, 2, Len(line))))]

\* FrameEnd without lines 179-181: data is not emptied
FrameEndKeepData(line, dt) ==
    /\ ReadLine(line)
    /\ first_line_read
    /\ StartsWith(line, "!")
    /\ Len(line) = 5
    /\ clock' = clock + dt
    /\ sent' = Append(sent, Message(line, clock'))
    /\ first_line_read' = FALSE
    /\ log' = Append(log, "End line found")
    /\ UNCHANGED <<data, datagram_counter, listener>>


\* FrameEnd without line 176: nothing is sent
FrameEndNoSend(line, dt) ==
    /\ ReadLine(line)
    /\ first_line_read
    /\ StartsWith(line, "!")
    /\ Len(line) = 5
    /\ clock' = clock + dt
    /\ first_line_read' = FALSE
    /\ data' = NewData
    /\ log' = Append(log, "End line found")
    /\ UNCHANGED <<sent, datagram_counter, listener>>

\* FrameEnd with len(line) >= 5 for len(line) == 5
FrameEndAnyLength(line, dt) ==
    /\ ReadLine(line)
    /\ first_line_read
    /\ StartsWith(line, "!")
    /\ Len(line) >= 5
    /\ clock' = clock + dt
    /\ sent' = Append(sent, Message(line, clock'))
    /\ first_line_read' = FALSE
    /\ data' = NewData
    /\ log' = Append(log, "End line found")
    /\ UNCHANGED <<datagram_counter, listener>>

\* lines 169-182: the last line of a frame; the telegram is sent
FrameEnd(line, dt) ==
    /\ ReadLine(line)
    /\ first_line_read
    /\ StartsWith(line, "!")
    /\ Len(line) = 5
    /\ clock' = clock + dt
    /\ sent' = Append(sent, Message(line, clock'))
    /\ first_line_read' = FALSE
    /\ data' = NewData
    /\ log' = Append(log, "End line found")
    /\ UNCHANGED <<datagram_counter, listener>>

InFrameOther(line) == first_line_read /\ ~(StartsWith(line, "!") /\ Len(line) = 5)

\* lines 186-190: the decoded value is stored, or float() / int() raised and
\* nothing in read_datagram or main catches it
StoreOne(key, value) ==
    IF value = Raised
    THEN /\ listener' = "crashed"
         /\ UNCHANGED <<data, log>>
    ELSE /\ data' = [data EXCEPT !.telegram = Put(data.telegram, key, value)]
         /\ log' = Append(log, "Found 1 value match")
         /\ UNCHANGED listener

StoreOneGroups(g) == StoreOne(g.key, parse_p1_value(g.value))

\* lines 184-190: key(value)
OneValue(line) ==
    /\ ReadLine(line)
    /\ InFrameOther(line)
    /\ P1_ONE_VALUE_RGX(line)
    /\ StoreOneGroups(OneValueGroups(line))
    /\ UNCHANGED <<first_line_read, datagram_counter, clock, sent>>

\* lines 194-200
StoreTwo(key, value1, value2) ==
    IF value1 = Raised \/ value2 = Raised
    THEN /\ listener' = "crashed"
         /\ UNCHANGED <<data, log>>
    ELSE /\ data' = [data EXCEPT !.telegram =
                        Put(Put(data.telegram, key \o <<".", "A">>, value1),
                            key \o <<".", "B">>, value2)]
         /\ log' = Append(log, "Found 2 values match")
         /\ UNCHANGED listener

StoreTwoGroups(g) ==
    StoreTwo(g.key, parse_p1_value(g.value1), parse_p1_value(g.value2))

\* lines 192-200: key(value1)(value2)
TwoValues(line) ==
    /\ ReadLine(line)
    /\ InFrameOther(line)
    /\ ~P1_ONE_VALUE_RGX(line)
    /\ P1_TWO_VALUES_RGX(line)
    /\ StoreTwoGroups(TwoValuesGroups(line))
    /\ UNCHANGED <<first_line_read, datagram_counter, clock, sent>>

\* NoMatch giving the frame up: the decoder returns to Idle with empty data
NoMatchAbort(line) ==
    /\ ReadLine(line)
    /\ InFrameOther(line)
    /\ ~P1_ONE_VALUE_RGX(line)
    /\ ~P1_TWO_VALUES_RGX(line)
    /\ first_line_read' = FALSE
    /\ data' = NewData
    /\ UNCHANGED <<datagram_counter, listener, clock, sent, log>>

\* lines 184-200 with neither pattern matching: the loop goes on
NoMatch(line) ==
    /\ ReadLine(line)
    /\ InFrameOther(line)
    /\ ~P1_ONE_VALUE_RGX(line)
    /\ ~P1_TWO_VALUES_RGX(line)
    /\ UNCHANGED <<first_line_read, data, datagram_counter, listener, clock, sent, log>>

(***************************************************************************)
(* The consumer, P1reader.SlimmeMeter.  A datagram is what recvfrom hands  *)
(* over: the sender, whether the bytes are JSON, and the decoded meta and  *)
(* telegram dicts.  frame-start-time is in milliseconds, so that int() has *)
(* a fraction to drop.                                                     *)
(***************************************************************************)
VARIABLES
    who,                   \* the sender of the last datagram, "None" at first
    telegram_framenumber,  \* the frame-number expected next
    measurements,          \* rows for the weekly log
    lastten,               \* the last rows t, 1-0:1.7.0, 1-0:2.7.0
    csvdata,               \* the closed intervals
    csvverbruik,           \* 1-0:1.7.0 of the open interval
    csvlevering,           \* 1-0:2.7.0 of the open interval
    csvfm,                 \* the time the open interval began
    reader,                \* "running", "flushing" at line 447, "exited", or
                           \* "crashed" by an uncaught exception
    received,              \* the datagrams recvfrom has returned, in order
    rlog                   \* the calls of logging.info / logging.warning, in order

rvars ==
    <<who, telegram_framenumber, measurements, lastten, csvdata, csvverbruik,
      csvlevering, csvfm, reader, received, rlog>>

ReaderInit ==
    /\ who = "None"
    /\ telegram_framenumber = 0
    /\ measurements = << >>
    /\ lastten = << >>
    /\ csvdata = << >>
    /\ csvverbruik = << >>
    /\ csvlevering = << >>
    /\ csvfm = 0
    /\ reader = "running"
    /\ received = << >>
    /\ rlog = << >>

weekly_log_measurement_period == 30
LastTenLength == 120
IntervalLength == 300
SlowFrame == 500

Has(d, k) == k \in DOMAIN d

\* the fields of the object as the handler runs; ok is FALSE once a line
\* has raised
ReaderState ==
    [who |-> who, fn |-> telegram_framenumber, measurements |-> measurements,
     lastten |-> lastten, csvdata |-> csvdata, csvverbruik |-> csvverbruik,
     csvlevering |-> csvlevering, csvfm |-> csvfm, log |-> rlog, ok |-> TRUE]

Raise(st) == [st EXCEPT !.ok = FALSE]

LogEntry(msg, sender, n) == [msg |-> msg, who |-> sender, n |-> n]

\* SenderCheck without line 386: the expected number is not set to the received
SenderCheckNoReset(st, d) ==
    IF st.who = d.who THEN st
    ELSE [st EXCEPT !.log = Append(@, LogEntry("Multicast sender restarted", d.who, 0)),
                    !.who = d.who]


\* lines 383-386
SenderCheck(st, d) ==
    IF st.who = d.who THEN st
    ELSE IF ~Has(d.meta, "frame-number")
    THEN Raise([st EXCEPT !.log = Append(@, LogEntry("Multicast sender restarted", d.who, 0)),
                          !.who = d.who])
    ELSE [st EXCEPT !.log = Append(@, LogEntry("Multicast sender restarted", d.who, 0)),
                    !.who = d.who,
                    !.fn = d.meta["frame-number"]]

\* GapCheck that gives up on a gap: the telegram is not ingested
GapCheckFatal(st, d) ==
    IF ~st.ok THEN st
    ELSE IF ~Has(d.meta, "frame-number") THEN Raise(st)
    ELSE IF d.meta["frame-number"] # st.fn
    THEN Raise([st EXCEPT !.log = Append(@, LogEntry("Missed telegrams", st.who,
                                                     st.fn - d.meta["frame-number"]))])
    ELSE st


\* GapCheck without line 391: the expected number is not set to the received
GapCheckNoResync(st, d) ==
    IF ~st.ok THEN st
    ELSE IF ~Has(d.meta, "frame-number") THEN Raise(st)
    ELSE IF d.meta["frame-number"] # st.fn
    THEN [st EXCEPT !.log = Append(@, LogEntry("Missed telegrams", st.who,
                                               st.fn - d.meta["frame-number"]))]
    ELSE st

\* lines 388-391
GapCheck(st, d) ==
    IF ~st.ok THEN st
    ELSE IF ~Has(d.meta, "frame-number") THEN Raise(st)
    ELSE IF d.meta["frame-number"] # st.fn
    THEN [st EXCEPT !.log = Append(@, LogEntry("Missed telegrams", st.who,
                                               st.fn - d.meta["frame-number"])),
                    !.fn = d.meta["frame-number"]]
    ELSE st

\* line 393
Advance(st) == IF st.ok THEN [st EXCEPT !.fn = @ + 1] ELSE st

\* line 396: int() drops the fraction
telegram_time(d) == d.meta["frame-start-time"] \div 1000

\* lines 396-400
Duration(st, d) ==
    IF ~st.ok THEN st
    ELSE IF ~Has(d.meta, "frame-start-time") \/ ~Has(d.meta, "frame-time-duration")
    THEN Raise(st)
    ELSE IF d.meta["frame-time-duration"] > SlowFrame
    THEN [st EXCEPT !.log = Append(@, LogEntry("Took to much time", st.who,
                                               d.meta["frame-time-duration"]))]
    ELSE st

\* Telegram with 1 for the 0 of line 406
TelegramDefaultOne(d) ==
    IF Has(d.telegram, "1-0:2.7.0") THEN d.telegram ELSE Put(d.telegram, "1-0:2.7.0", 1)


\* lines 404-406
Telegram(d) ==
    IF Has(d.telegram, "1-0:2.7.0") THEN d.telegram ELSE Put(d.telegram, "1-0:2.7.0", 0)

HasEnergy(tg) ==
    /\ Has(tg, "1-0:1.8.1")
    /\ Has(tg, "1-0:1.8.2")
    /\ Has(tg, "1-0:2.8.1")
    /\ Has(tg, "1-0:2.8.2")

MeasurementRow(t, tg) ==
    <<t, tg["1-0:1.8.1"], tg["1-0:1.8.2"], tg["1-0:1.7.0"],
         tg["1-0:2.8.1"], tg["1-0:2.8.2"], tg["1-0:2.7.0"]>>

\* Weekly without the test of line 409: every telegram is sampled
WeeklyEveryTelegram(st, d) ==
    IF ~st.ok THEN st
    ELSE IF ~(HasEnergy(Telegram(d)) /\ Has(Telegram(d), "1-0:1.7.0")) THEN Raise(st)
    ELSE [st EXCEPT !.measurements = Append(@, MeasurementRow(telegram_time(d), Telegram(d)))]


\* lines 408-411
Weekly(st, d) ==
    IF ~st.ok THEN st
    ELSE IF telegram_time(d) % weekly_log_measurement_period # 0 THEN st
    ELSE IF ~(HasEnergy(Telegram(d)) /\ Has(Telegram(d), "1-0:1.7.0")) THEN Raise(st)
    ELSE [st EXCEPT !.measurements = Append(@, MeasurementRow(telegram_time(d), Telegram(d)))]

LastTenRow(t, tg) == <<t, tg["1-0:1.7.0"], tg["1-0:2.7.0"]>>

\* LastTen with self.lastten[:-1] for self.lastten[1:]: the newest of the
\* buffer is dropped
LastTenDropNewest(st, d) ==
    IF ~st.ok THEN st
    ELSE IF ~Has(Telegram(d), "1-0:1.7.0") THEN Raise(st)
    ELSE IF Len(st.lastten) > LastTenLength
    THEN [st EXCEPT !.lastten = SubSeq(@, 1, Len(@) - 1)
                                    \o <<LastTenRow(telegram_time(d), Telegram(d))>>]
    ELSE [st EXCEPT !.lastten = Append(@, LastTenRow(telegram_time(d), Telegram(d)))]


\* lines 413-416
LastTen(st, d) ==
    IF ~st.ok THEN st
    ELSE IF ~Has(Telegram(d), "1-0:1.7.0") THEN Raise(st)
    ELSE IF Len(st.lastten) > LastTenLength
    THEN [st EXCEPT !.lastten = Tail(@) \o <<LastTenRow(telegram_time(d), Telegram(d))>>]
    ELSE [st EXCEPT !.lastten = Append(@, LastTenRow(telegram_time(d), Telegram(d)))]

\* line 420
IntervalEnds(t, fm) ==
    \/ t % IntervalLength < 3 /\ t - fm > 10
    \/ t - fm > IntervalLength

CsvRow(t, tg, verbruik, levering) ==
    <<t, tg["1-0:1.8.1"] + tg["1-0:1.8.2"], verbruik,
         tg["1-0:2.8.1"] + tg["1-0:2.8.2"], levering>>

\* CsvAppend without line 419: the power delivered is not sampled
CsvAppendInOnly(st, tg) ==
    [st EXCEPT !.csvverbruik = Append(@, tg["1-0:1.7.0"])]


\* lines 418-419
CsvAppend(st, tg) ==
    [st EXCEPT !.csvverbruik = Append(@, tg["1-0:1.7.0"]),
               !.csvlevering = Append(@, tg["1-0:2.7.0"])]

\* lines 420-426, on the lists of lines 418-419
CsvClose(st, t, tg) ==
    IF ~IntervalEnds(t, st.csvfm) THEN st
    ELSE IF ~HasEnergy(tg) THEN Raise(st)
    ELSE [st EXCEPT !.csvdata = Append(@, CsvRow(t, tg, st.csvverbruik, st.csvlevering)),
                    !.csvfm = t,
                    !.csvverbruik = << >>,
                    !.csvlevering = << >>]

\* Csv with lines 420-426 before lines 418-419: the closing sample opens
\* the next interval
CsvCloseFirst(st, d) ==
    IF ~st.ok THEN st
    ELSE CsvAppend(CsvClose(st, telegram_time(d), Telegram(d)), Telegram(d))


\* lines 418-426
Csv(st, d) ==
    IF ~st.ok THEN st
    ELSE CsvClose(CsvAppend(st, Telegram(d)), telegram_time(d), Telegram(d))

\* lines 164-170 from row i on
RECURSIVE SortedRowsFrom(_, _, _, _, _)
SortedRowsFrom(rows, i, sorted_row, temp_row, first_timestamp) ==
    IF i > Len(rows) THEN sorted_row
    ELSE IF first_timestamp \div 10 = rows[i][1] \div 10
    THEN SortedRowsFrom(rows, i + 1, sorted_row, Append(temp_row, rows[i]), first_timestamp)
    ELSE SortedRowsFrom(rows, i + 1, Append(sorted_row, temp_row), <<rows[i]>>, rows[i][1])

\* lines 158-171: None for no rows, else the list sorted_row, which the loop
\* appends to only when a row of another ten seconds comes
sorted_rows(rows) ==
    IF Len(rows) = 0
    THEN [none |-> TRUE, runs |-> << >>]
    ELSE [none |-> FALSE, runs |-> SortedRowsFrom(rows, 1, << >>, << >>, rows[1][1])]


\* lines 253-260: N, min, max and sum before the loop
NoSamples == [N |-> 0, min |-> 999999, max |-> 0, sum |-> 0]

\* lines 262-267 and 270-275: one pass of the loop
OneSample(acc, e) ==
    [N |-> acc.N + 1,
     min |-> IF e < acc.min THEN e ELSE acc.min,
     max |-> IF e > acc.max THEN e ELSE acc.max,
     sum |-> acc.sum + e]

RECURSIVE SamplesFrom(_, _, _)
SamplesFrom(list, i, acc) ==
    IF i > Len(list) THEN acc ELSE SamplesFrom(list, i + 1, OneSample(acc, list[i]))

\* lines 268 and 276: avg = sum / N in floating point, kept as the quotient
\* of two integers; ZeroDivisionError for no samples
Average(acc) == [raised |-> acc.N = 0, num |-> acc.sum, den |-> acc.N]

\* %4d of the average: the fraction is dropped
WholeNumber(avg) == avg.num \div avg.den

\* lines 253-276 for one list of a row of csvdata
CsvStats(list) ==
    [min |-> SamplesFrom(list, 1, NoSamples).min,
     avg |-> Average(SamplesFrom(list, 1, NoSamples)),
     max |-> SamplesFrom(list, 1, NoSamples).max]


\* lines 380-428 on the object as it is
Handled(d) ==
    Csv(LastTen(Weekly(Duration(Advance(GapCheck(SenderCheck(ReaderState, d), d)), d), d), d), d)

Commit(st) ==
    /\ who' = st.who
    /\ telegram_framenumber' = st.fn
    /\ measurements' = st.measurements
    /\ lastten' = st.lastten
    /\ csvdata' = st.csvdata
    /\ csvverbruik' = st.csvverbruik
    /\ csvlevering' = st.csvlevering
    /\ csvfm' = st.csvfm
    /\ rlog' = st.log
    /\ reader' = IF st.ok THEN "running" ELSE "crashed"

\* line 372
Receive(d) ==
    /\ reader = "running"
    /\ received' = Append(received, d)

\* lines 373-378: json.loads raises, and the handler's f-string names now,
\* which read_datagram does not have: NameError, before anything is logged
JsonError(d) ==
    /\ Receive(d)
    /\ ~d.json
    /\ reader' = "crashed"
    /\ UNCHANGED <<who, telegram_framenumber, measurements, lastten, csvdata,
                   csvverbruik, csvlevering, csvfm, rlog>>

\* lines 380-426 up to a KeyError, which nothing catches
KeyError(d) ==
    /\ Receive(d)
    /\ d.json
    /\ ~Handled(d).ok
    /\ Commit(Handled(d))

\* lines 380-428: the telegram is returned
Ingest(d) ==
    /\ Receive(d)
    /\ d.json
    /\ Handled(d).ok
    /\ Commit(Handled(d))

(***************************************************************************)
(* The consumer's loop: main, do_exit and the exporters of P1reader.py,    *)
(* run without --test.  Times of flushes are kept in milliseconds.         *)
(***************************************************************************)
VARIABLES
    now,                            \* int(time.time()) of the last iteration
    datagrams,                      \* the [time, telegram] pairs not yet exported
    p1_reader_details_flushtime,
    html_report_flushtime,
    weekly_log_flushtime,
    p1_reader_interval_flushtime,
    details_file,                   \* the lines of the detail export
    html_file,                      \* the page of the last print_html
    weekly_file,                    \* the lines of the weekly log
    interval_file,                  \* the lines of the last PERIOD file
    day_file                        \* the lines of the DAY file

mvars ==
    <<now, datagrams, p1_reader_details_flushtime, html_report_flushtime,
      weekly_log_flushtime, p1_reader_interval_flushtime, details_file, html_file,
      weekly_file, interval_file, day_file>>

\* the keys of a row of the detail export, in the order of the row
P1_KEYS ==
    <<"1-3:0.2.8", "0-0:1.0.0", "0-0:96.1.1", "1-0:1.8.1", "1-0:1.8.2",
      "1-0:2.8.1", "1-0:2.8.2", "0-0:96.14.0", "1-0:1.7.0", "1-0:2.7.0",
      "0-0:96.7.21", "0-0:96.7.9", "1-0:99.97.0", "1-0:32.32.0",
      "1-0:52.32.0", "1-0:72.32.0", "1-0:32.36.0", "1-0:52.36.0",
      "1-0:72.36.0", "0-0:96.13.0", "1-0:32.7.0", "1-0:52.7.0", "1-0:72.7.0",
      "1-0:31.7.0", "1-0:51.7.0", "1-0:71.7.0", "1-0:21.7.0", "1-0:41.7.0",
      "1-0:61.7.0", "1-0:22.7.0", "1-0:42.7.0", "1-0:62.7.0", "0-1:24.1.0",
      "0-1:96.1.0", "0-1:24.2.1.A", "0-1:24.2.1.B">>

\* the names of the second header line of the detail export, in the order of P1_KEYS
P1_KEYS_TO_FRIENDLY_NAME ==
    <<"version", "timestamp", "equipment id", "elec. in, t1", "elec. in, t2",
      "elec. out, t1", "elec. out, t2", "tariff", "power in", "power out",
      "# power failures", "# long power failures",
      "failure timestamp - duration", "voltage sags L1", "voltage sags L2",
      "voltage sags L3", "voltage swells L1", "voltage swells L2",
      "voltage swells L3", "text message", "voltage L1", "voltage L2",
      "voltage L3", "current L1", "current L2", "current L3", "power in L1",
      "power in L2", "power in L3", "power out L1", "power out L2",
      "power out L3", "device type", "equipment ID", "Gas meting tijd",
      "Gas meting">>

\* lines 557-570: the defaults of the flush periods
p1_reader_details_flushperiod == 300
p1_reader_interval_flushperiod == 1800
html_report_flushperiod == 30
weekly_log_flushperiod == 30

\* time.time() of lines 557-569, in seconds; the start is a quarter of a
\* second past it
StartNow == 87720
StartMilli == 1000 * StartNow + 250

\* the seconds from line 575 to the time.time() of line 578
ReadWait == 1

NoPage == [opened |-> FALSE, rows |-> << >>, complete |-> FALSE]

MainInit ==
    /\ now = StartNow
    /\ datagrams = << >>
    /\ p1_reader_details_flushtime = StartMilli
    /\ html_report_flushtime = StartMilli
    /\ weekly_log_flushtime = StartMilli
    /\ p1_reader_interval_flushtime = StartMilli
    /\ details_file = << >>
    /\ html_file = NoPage
    /\ weekly_file = << >>
    /\ interval_file = << >>
    /\ day_file = << >>

\* the object and the locals of main as an iteration runs
MainState(st) ==
    [r |-> st, datagrams |-> datagrams,
     details_flushtime |-> p1_reader_details_flushtime,
     html_flushtime |-> html_report_flushtime,
     weekly_flushtime |-> weekly_log_flushtime,
     interval_flushtime |-> p1_reader_interval_flushtime,
     details_file |-> details_file, html_file |-> html_file,
     weekly_file |-> weekly_file, interval_file |-> interval_file,
     day_file |-> day_file]

\* lines 465-474: the line of one pair, the time and a field for each key
DetailRow(pair) ==
    <<ToString(pair[1])>> \o
    [i \in 1..Len(P1_KEYS) |->
        IF Has(pair[2], P1_KEYS[i]) THEN ToString(pair[2][P1_KEYS[i]]) ELSE ""]

\* lines 458-463: the two header lines of a new file
DetailHeader == << <<"datum">> \o P1_KEYS, <<"datum">> \o P1_KEYS_TO_FRIENDLY_NAME >>

\* lines 450-474, on the lines the file has
write_to_csv_file(file, pairs) ==
    file \o (IF file = << >> THEN DetailHeader ELSE << >>)
         \o [i \in 1..Len(pairs) |-> DetailRow(pairs[i])]

Reverse(s) == [i \in 1..Len(s) |-> s[Len(s) + 1 - i]]

\* print_html with lastten = self.lastten for the copy of line 202: the
\* reverse of line 205 turns the buffer of the object around
print_html_in_place(m) ==
    IF sorted_rows(m.r.lastten).none
    THEN [m EXCEPT !.html_file = [opened |-> TRUE, rows |-> << >>, complete |-> FALSE],
                   !.r = Raise(@)]
    ELSE [m EXCEPT !.html_file = [opened |-> TRUE,
                                  rows |-> Reverse(sorted_rows(m.r.lastten).runs),
                                  complete |-> TRUE],
                   !.r.lastten = Reverse(@)]


\* lines 173-230: the file is opened and its head written, then
\* sorted_rows(lastten).reverse() raises AttributeError when lastten is empty
print_html(m) ==
    IF sorted_rows(m.r.lastten).none
    THEN [m EXCEPT !.html_file = [opened |-> TRUE, rows |-> << >>, complete |-> FALSE],
                   !.r = Raise(@)]
    ELSE [m EXCEPT !.html_file = [opened |-> TRUE,
                                  rows |-> Reverse(sorted_rows(m.r.lastten).runs),
                                  complete |-> TRUE]]

\* lines 430-448
flush_data(m) ==
    [m EXCEPT !.weekly_file = @ \o m.r.measurements, !.r.measurements = << >>]

RECURSIVE Pow2Mod75(_)
Pow2Mod75(k) == IF k = 0 THEN 1 ELSE (2 * Pow2Mod75(k - 1)) % 75

\* epoch_time / 300 is the double nearest to the quotient: t * 2^(50 - a)
\* is divided by 75 to the nearest whole number, a the exponent of the
\* quotient; QuotientError is 75 times what the rounding adds
QuotientError(t) ==
    IF 2 * (((t % 75) * Pow2Mod75(50 - Log2(t \div 300))) % 75) < 75
    THEN 0 - (((t % 75) * Pow2Mod75(50 - Log2(t \div 300))) % 75)
    ELSE 75 - (((t % 75) * Pow2Mod75(50 - Log2(t \div 300))) % 75)

\* line 279: time.localtime(epoch_time / 300 * 300), for 300 <= epoch_time:
\* the product is QuotientError(t) / 2^(Log2(t) - a - 2) units in the last
\* place away from t and is rounded to the nearest double; localtime drops
\* the fraction
FiveMinutes(t) ==
    IF /\ QuotientError(t) < 0
       /\ 2 * (0 - QuotientError(t)) > Pow2(Log2(t) - Log2(t \div 300) - 2)
    THEN t - 1
    ELSE t

\* lines 278-281: the message of one row of csvdata
IntervalLine(row) ==
    <<FiveMinutes(row[1]),
      row[2], CsvStats(row[3]).min, WholeNumber(CsvStats(row[3]).avg), CsvStats(row[3]).max,
      row[4], CsvStats(row[5]).min, WholeNumber(CsvStats(row[5]).avg), CsvStats(row[5]).max>>

\* lines 268 and 276: the division raises ZeroDivisionError on an empty list
Divides(rows, i) == Len(rows[i][3]) > 0 /\ Len(rows[i][5]) > 0

\* the rows of csvdata written: all, or those before the first that raises
Written(rows) ==
    CHOOSE n \in 0..Len(rows) :
        /\ \A i \in 1..n : Divides(rows, i)
        /\ n < Len(rows) => ~Divides(rows, n + 1)

IntervalLines(rows) == [i \in 1..Written(rows) |-> IntervalLine(rows[i])]

\* print_csv without line 287: csvdata is kept
print_csv_keep(m) ==
    IF Len(m.r.csvdata) < 3
    THEN [m EXCEPT !.r.log = Append(@, LogEntry("Not enough data to write interval report",
                                                "", Len(m.r.csvdata)))]
    ELSE [m EXCEPT !.interval_file = IntervalLines(m.r.csvdata),
                   !.day_file = @ \o IntervalLines(m.r.csvdata)]


\* lines 232-287
print_csv(m) ==
    IF Len(m.r.csvdata) < 3
    THEN [m EXCEPT !.r.log = Append(@, LogEntry("Not enough data to write interval report",
                                                "", Len(m.r.csvdata)))]
    ELSE IF Written(m.r.csvdata) < Len(m.r.csvdata)
    THEN [m EXCEPT !.interval_file = IntervalLines(m.r.csvdata),
                   !.day_file = @ \o IntervalLines(m.r.csvdata),
                   !.r = Raise(@)]
    ELSE [m EXCEPT !.interval_file = IntervalLines(m.r.csvdata),
                   !.day_file = @ \o IntervalLines(m.r.csvdata),
                   !.r.csvdata = << >>]

\* Due without the first test: the time since the last flush alone
DueElapsed(t, period, threshold, flushtime) ==
    1000 * t - flushtime > 250 * period

\* Due without the second test: the place in the period alone
DueModulus(t, period, threshold, flushtime) ==
    (t % period) < threshold

\* the test of lines 580, 586, 590 and 595
Due(t, period, threshold, flushtime) ==
    /\ (t % period) < threshold
    /\ 1000 * t - flushtime > 250 * period

\* line 578: the telegram read_datagram returned, with the time
Appended(m, t, d) ==
    IF ~m.r.ok THEN m
    ELSE [m EXCEPT !.datagrams = Append(@, <<t + ReadWait, Telegram(d)>>)]

\* DetailFlush without line 583: the list is kept
DetailFlushKeep(m, t) ==
    IF ~m.r.ok \/ ~Due(t, p1_reader_details_flushperiod, 5, m.details_flushtime) THEN m
    ELSE [m EXCEPT !.details_file = write_to_csv_file(@, m.datagrams),
                   !.details_flushtime = 1000 * t]

\* lines 580-584
DetailFlush(m, t) ==
    IF ~m.r.ok \/ ~Due(t, p1_reader_details_flushperiod, 5, m.details_flushtime) THEN m
    ELSE [m EXCEPT !.details_file = write_to_csv_file(@, m.datagrams),
                   !.datagrams = << >>,
                   !.details_flushtime = 1000 * t]

\* line 588, reached when print_html has returned
HtmlFlushed(m, t) == IF m.r.ok THEN [m EXCEPT !.html_flushtime = 1000 * t] ELSE m

\* lines 586-588
HtmlFlush(m, t) ==
    IF ~m.r.ok \/ ~Due(t, html_report_flushperiod, 2, m.html_flushtime) THEN m
    ELSE HtmlFlushed(print_html(m), t)

\* lines 590-593
WeeklyFlush(m, t) ==
    IF ~m.r.ok \/ ~Due(t, weekly_log_flushperiod, 5, m.weekly_flushtime) THEN m
    ELSE [flush_data(m) EXCEPT !.weekly_flushtime = 1000 * t]

\* line 598, reached when print_csv has returned
IntervalFlushed(m, t) == IF m.r.ok THEN [m EXCEPT !.interval_flushtime = 1000 * t] ELSE m

\* lines 595-598
IntervalFlush(m, t) ==
    IF ~m.r.ok \/ ~Due(t, p1_reader_interval_flushperiod, 5, m.interval_flushtime) THEN m
    ELSE IntervalFlushed(print_csv(m), t)

\* lines 577-598: one turn of the loop that began at second t
Turn(t, d) ==
    IntervalFlush(WeeklyFlush(HtmlFlush(DetailFlush(
        Appended(MainState(Handled(d)), t, d), t), t), t), t)

\* the locals of main and the files after a turn
CommitMain(m) ==
    /\ datagrams' = m.datagrams
    /\ p1_reader_details_flushtime' = m.details_flushtime
    /\ html_report_flushtime' = m.html_flushtime
    /\ weekly_log_flushtime' = m.weekly_flushtime
    /\ p1_reader_interval_flushtime' = m.interval_flushtime
    /\ details_file' = m.details_file
    /\ html_file' = m.html_file
    /\ weekly_file' = m.weekly_file
    /\ interval_file' = m.interval_file
    /\ day_file' = m.day_file

\* lines 574-598: a turn of the loop on a datagram that is JSON
Iterate(t, d) ==
    /\ Receive(d)
    /\ d.json
    /\ now' = t
    /\ \E m \in {Turn(t, d)} : Commit(m.r) /\ CommitMain(m)

\* lines 574-577: the datagram is no JSON and read_datagram raises NameError
IterateJsonError(t, d) ==
    /\ JsonError(d)
    /\ now' = t
    /\ UNCHANGED <<datagrams, p1_reader_details_flushtime, html_report_flushtime,
                   weekly_log_flushtime, p1_reader_interval_flushtime, details_file,
                   html_file, weekly_file, interval_file, day_file>>

\* lines 69-75 on the object as the signal finds it
Exiting(m) ==
    IF print_html(flush_data(m)).r.ok THEN print_csv(print_html(flush_data(m)))
    ELSE print_html(flush_data(m))

\* lines 69-75: SIGINT or SIGUSR1 while main waits in recvfrom; an exception
\* of print_html ends the process before print_csv
do_exit ==
    /\ reader = "running"
    /\ \E m \in {Exiting(MainState(ReaderState))} :
          /\ who' = m.r.who
          /\ telegram_framenumber' = m.r.fn
          /\ measurements' = m.r.measurements
          /\ lastten' = m.r.lastten
          /\ csvdata' = m.r.csvdata
          /\ csvverbruik' = m.r.csvverbruik
          /\ csvlevering' = m.r.csvlevering
          /\ csvfm' = m.r.csvfm
          /\ rlog' = m.r.log
          /\ reader' = IF m.r.ok THEN "exited" ELSE "crashed"
          /\ CommitMain(m)
    /\ UNCHANGED <<now, received>>

\* the fields of the object after a step that leaves main inside a call
CommitObject(st) ==
    /\ who' = st.who
    /\ telegram_framenumber' = st.fn
    /\ measurements' = st.measurements
    /\ lastten' = st.lastten
    /\ csvdata' = st.csvdata
    /\ csvverbruik' = st.csvverbruik
    /\ csvlevering' = st.csvlevering
    /\ csvfm' = st.csvfm
    /\ rlog' = st.log

\* lines 577-588: a turn up to the test of line 590
TurnToWeekly(t, d) ==
    HtmlFlush(DetailFlush(Appended(MainState(Handled(d)), t, d), t), t)

\* lines 574-446: a turn whose weekly flush is due, up to the end of the
\* loop of flush_data: the lines of self.measurements are in the buffer of
\* data_file, which is not closed, and self.measurements is not emptied
IterateToFlush(t, d) ==
    /\ Receive(d)
    /\ d.json
    /\ now' = t
    /\ \E m \in {TurnToWeekly(t, d)} :
          /\ m.r.ok
          /\ Due(t, weekly_log_flushperiod, 5, m.weekly_flushtime)
          /\ CommitObject(m.r)
          /\ CommitMain(m)
    /\ reader' = "flushing"

\* lines 447-448 and 593: the file is closed, the list emptied, the time set
FlushClosed(m) ==
    [m EXCEPT !.weekly_file = @ \o m.r.measurements,
              !.r.measurements = << >>,
              !.weekly_flushtime = 1000 * now]

\* lines 447-448 and 593-598: the rest of the turn
FlushClose ==
    /\ reader = "flushing"
    /\ \E m \in {IntervalFlush(FlushClosed(MainState(ReaderState)), now)} :
          /\ CommitObject(m.r)
          /\ CommitMain(m)
          /\ reader' = IF m.r.ok THEN "running" ELSE "crashed"
    /\ UNCHANGED <<now, received>>

\* the buffer of the data_file of main is written when SystemExit unwinds
\* flush_data and the file object is finalized
Unwound(m, buffer) == [m EXCEPT !.weekly_file = @ \o buffer]

\* lines 69-75 between line 446 and line 448 of the flush_data main called:
\* the handler runs flush_data on the same self.measurements
do_exit_in_flush ==
    /\ reader = "flushing"
    /\ \E m \in {Unwound(Exiting(MainState(ReaderState)), measurements)} :
          /\ CommitObject(m.r)
          /\ CommitMain(m)
          /\ reader' = IF m.r.ok THEN "exited" ELSE "crashed"
    /\ UNCHANGED <<now, received>>

vars == <<lvars, rvars, mvars>>

Init == ListenerInit /\ ReaderInit /\ MainInit

(***************************************************************************)
(* SpecListener: a producer run on any MaxLines lines of Lines.            *)
(***************************************************************************)
ListenerInput == IF Len(lines_in) < MaxLines THEN Lines ELSE {}

ListenerNext ==
    \/ \E line \in ListenerInput, dt \in Ticks : FrameStart(line, dt) /\ UNCHANGED <<rvars, mvars>>
    \/ \E line \in ListenerInput : UnexpectedLine(line) /\ UNCHANGED <<rvars, mvars>>
    \/ \E line \in ListenerInput, dt \in Ticks : FrameEnd(line, dt) /\ UNCHANGED <<rvars, mvars>>
    \/ \E line \in ListenerInput : OneValue(line) /\ UNCHANGED <<rvars, mvars>>
    \/ \E line \in ListenerInput : TwoValues(line) /\ UNCHANGED <<rvars, mvars>>
    \/ \E line \in ListenerInput : NoMatch(line) /\ UNCHANGED <<rvars, mvars>>

SpecListener == Init /\ [][ListenerNext]_vars

(***************************************************************************)
(* SpecFrame: a producer run on one frame: a blank line, the header, one   *)
(* line of FieldLines, the end line.                                       *)
(***************************************************************************)
FrameInput ==
    CASE Len(lines_in) = 0 -> {LineEmpty}
      [] Len(lines_in) = 1 -> {HeaderISK5}
      [] Len(lines_in) = 2 -> FieldLines
      [] Len(lines_in) = 3 -> {LineEnd1234}
      [] OTHER -> {}

FrameNext ==
    \/ \E line \in FrameInput, dt \in Ticks : FrameStart(line, dt) /\ UNCHANGED <<rvars, mvars>>
    \/ \E line \in FrameInput : UnexpectedLine(line) /\ UNCHANGED <<rvars, mvars>>
    \/ \E line \in FrameInput, dt \in Ticks : FrameEnd(line, dt) /\ UNCHANGED <<rvars, mvars>>
    \/ \E line \in FrameInput : OneValue(line) /\ UNCHANGED <<rvars, mvars>>
    \/ \E line \in FrameInput : TwoValues(line) /\ UNCHANGED <<rvars, mvars>>
    \/ \E line \in FrameInput : NoMatch(line) /\ UNCHANGED <<rvars, mvars>>

SpecFrame == Init /\ [][FrameNext]_vars

(***************************************************************************)
(* SpecFrames: a producer run on any MaxFrameLines lines of four kinds,    *)
(* long enough for two frames, one of them with a field.                   *)
(***************************************************************************)
FewLines == {HeaderISK5, LinePowerIn, LineGas, LineEnd1234}

FramesInput == IF Len(lines_in) < MaxFrameLines THEN FewLines ELSE {}

FramesNext ==
    \/ \E line \in FramesInput, dt \in Ticks : FrameStart(line, dt) /\ UNCHANGED <<rvars, mvars>>
    \/ \E line \in FramesInput : UnexpectedLine(line) /\ UNCHANGED <<rvars, mvars>>
    \/ \E line \in FramesInput, dt \in Ticks : FrameEnd(line, dt) /\ UNCHANGED <<rvars, mvars>>
    \/ \E line \in FramesInput : OneValue(line) /\ UNCHANGED <<rvars, mvars>>
    \/ \E line \in FramesInput : TwoValues(line) /\ UNCHANGED <<rvars, mvars>>
    \/ \E line \in FramesInput : NoMatch(line) /\ UNCHANGED <<rvars, mvars>>

SpecFrames == Init /\ [][FramesNext]_vars

(***************************************************************************)
(* SpecRetry: a producer run on any MaxRetryLines lines of FewLines, where *)
(* reads fail and signals arrive, MaxFailures times logged at most.        *)
(***************************************************************************)
RetryInput == IF Len(lines_in) < MaxRetryLines THEN FewLines ELSE {}

RetryNext ==
    \/ \E line \in RetryInput, dt \in Ticks : FrameStart(line, dt) /\ UNCHANGED <<rvars, mvars>>
    \/ \E line \in RetryInput : UnexpectedLine(line) /\ UNCHANGED <<rvars, mvars>>
    \/ \E line \in RetryInput, dt \in Ticks : FrameEnd(line, dt) /\ UNCHANGED <<rvars, mvars>>
    \/ \E line \in RetryInput : OneValue(line) /\ UNCHANGED <<rvars, mvars>>
    \/ \E line \in RetryInput : TwoValues(line) /\ UNCHANGED <<rvars, mvars>>
    \/ \E line \in RetryInput : NoMatch(line) /\ UNCHANGED <<rvars, mvars>>
    \/ ReadFailure /\ UNCHANGED <<rvars, mvars>>
    \/ Retry /\ UNCHANGED <<rvars, mvars>>
    \/ DecodeError /\ UNCHANGED <<rvars, mvars>>
    \/ SignalInRead /\ UNCHANGED <<rvars, mvars>>
    \/ SignalInSleep /\ UNCHANGED <<rvars, mvars>>

SpecRetry == Init /\ [][RetryNext]_vars

(***************************************************************************)
(* SpecReader: a consumer run on MaxIngest datagrams of two senders, with  *)
(* any frame-number up to MaxFrame, ten seconds apart.                     *)
(***************************************************************************)
Senders == {"192.168.1.10:40000", "192.168.1.10:40001"}

TelegramFull ==
    [k \in {"1-0:1.8.1", "1-0:1.8.2", "1-0:2.8.1", "1-0:2.8.2", "1-0:1.7.0", "1-0:2.7.0"} |->
        CASE k = "1-0:1.8.1" -> 1651
          [] k = "1-0:1.8.2" -> 2000
          [] k = "1-0:2.8.1" -> 0
          [] k = "1-0:2.8.2" -> 10
          [] k = "1-0:1.7.0" -> 500
          [] k = "1-0:2.7.0" -> 100]

Without(tg, k) == [x \in (DOMAIN tg) \ {k} |-> tg[x]]

\* the k-th datagram starts a day and 10 k seconds and a quarter after the epoch
StartTime(k) == 86400000 + 10000 * k + 250

Meta(fn, k, duration) ==
    [x \in {"frame-number", "frame-start-time", "frame-end-time", "frame-time-duration"} |->
        CASE x = "frame-number" -> fn
          [] x = "frame-start-time" -> StartTime(k)
          [] x = "frame-end-time" -> StartTime(k) + duration
          [] x = "frame-time-duration" -> duration]

Datagram(sender, fn, k, duration, tg) ==
    [who |-> sender, json |-> TRUE, meta |-> Meta(fn, k, duration), telegram |-> tg]

\* bytes that are no JSON
Garbage(sender) == [who |-> sender, json |-> FALSE, meta |-> EmptyDict, telegram |-> EmptyDict]

Payloads ==
    {<<400, TelegramFull>>, <<600, Without(TelegramFull, "1-0:2.7.0")>>,
     <<400, Without(TelegramFull, "1-0:1.7.0")>>, <<400, Without(TelegramFull, "1-0:1.8.2")>>}

Datagrams(k) ==
    {Datagram(s, fn, k, p[1], p[2]) : s \in Senders, fn \in 1..MaxFrame, p \in Payloads}
        \cup {Garbage(s) : s \in Senders}

ReaderInput == IF Len(received) < MaxIngest THEN Datagrams(Len(received)) ELSE {}

ReaderNext ==
    \/ \E d \in ReaderInput : JsonError(d) /\ UNCHANGED <<lvars, mvars>>
    \/ \E d \in ReaderInput : KeyError(d) /\ UNCHANGED <<lvars, mvars>>
    \/ \E d \in ReaderInput : Ingest(d) /\ UNCHANGED <<lvars, mvars>>

SpecReader == Init /\ [][ReaderNext]_vars

(***************************************************************************)
(* SpecStream: a consumer run on a steady stream: MaxStream datagrams of   *)
(* one sender, numbered from 1, ten seconds apart, any of which may be     *)
(* damaged or lack 1-0:1.7.0.                                              *)
(***************************************************************************)
Sender == "192.168.1.10:40000"

StreamDatagrams(k) ==
    {Datagram(Sender, k + 1, k, 400, TelegramFull),
     Datagram(Sender, k + 1, k, 400, Without(TelegramFull, "1-0:1.7.0")),
     Garbage(Sender)}

StreamInput == IF Len(received) < MaxStream THEN StreamDatagrams(Len(received)) ELSE {}

StreamNext ==
    \/ \E d \in StreamInput : JsonError(d) /\ UNCHANGED <<lvars, mvars>>
    \/ \E d \in StreamInput : KeyError(d) /\ UNCHANGED <<lvars, mvars>>
    \/ \E d \in StreamInput : Ingest(d) /\ UNCHANGED <<lvars, mvars>>

SpecStream == Init /\ [][StreamNext]_vars

(***************************************************************************)
(* SpecInterval: a consumer run on MaxInterval datagrams of one sender,    *)
(* the first at a time around a multiple of 300 seconds and each later one *)
(* a step of Steps seconds after the one before.                           *)
(***************************************************************************)
MetaAt(fn, ms, duration) ==
    [x \in {"frame-number", "frame-start-time", "frame-end-time", "frame-time-duration"} |->
        CASE x = "frame-number" -> fn
          [] x = "frame-start-time" -> ms
          [] x = "frame-end-time" -> ms + duration
          [] x = "frame-time-duration" -> duration]

DatagramAt(sender, fn, ms, duration, tg) ==
    [who |-> sender, json |-> TRUE, meta |-> MetaAt(fn, ms, duration), telegram |-> tg]

FirstTimes == (0..12) \cup (288..303) \cup (588..592)
Steps == {1, 2, 3, 9, 10, 11, 12, 298, 299, 300, 301}

\* the times in milliseconds the next datagram may carry, a quarter of a
\* second past the second
NextTimes ==
    IF received = << >>
    THEN {1000 * t + 250 : t \in FirstTimes}
    ELSE {received[Len(received)].meta["frame-start-time"] + 1000 * dt : dt \in Steps}

IntervalDatagrams ==
    {DatagramAt(Sender, Len(received) + 1, ms, 400, tg) :
        ms \in NextTimes, tg \in {TelegramFull, Without(TelegramFull, "1-0:1.7.0")}}
        \cup {Garbage(Sender)}

IntervalInput ==
    IF Len(received) < MaxInterval /\ (received # << >> => received[Len(received)].json)
    THEN IntervalDatagrams ELSE {}

IntervalNext ==
    \/ \E d \in IntervalInput : JsonError(d) /\ UNCHANGED <<lvars, mvars>>
    \/ \E d \in IntervalInput : KeyError(d) /\ UNCHANGED <<lvars, mvars>>
    \/ \E d \in IntervalInput : Ingest(d) /\ UNCHANGED <<lvars, mvars>>

SpecInterval == Init /\ [][IntervalNext]_vars

(***************************************************************************)
(* SpecWindow: a fresh consumer run on MaxWindow datagrams of one sender,  *)
(* the first at time 0, each later one a minute or five after the one      *)
(* before, with 10 or 20 W taken.                                          *)
(***************************************************************************)
WindowSteps == {60, 300}
WindowPowers == {10, 20}

WindowTimes ==
    IF received = << >>
    THEN {250}
    ELSE {received[Len(received)].meta["frame-start-time"] + 1000 * dt : dt \in WindowSteps}

WindowDatagrams ==
    {DatagramAt(Sender, Len(received) + 1, ms, 400, Put(TelegramFull, "1-0:1.7.0", p)) :
        ms \in WindowTimes, p \in WindowPowers}
        \cup {DatagramAt(Sender, Len(received) + 1, ms, 400, Without(TelegramFull, "1-0:1.7.0")) :
                ms \in WindowTimes}
        \cup {Garbage(Sender)}

WindowInput ==
    IF Len(received) < MaxWindow /\ (received # << >> => received[Len(received)].json)
    THEN WindowDatagrams ELSE {}

WindowNext ==
    \/ \E d \in WindowInput : JsonError(d) /\ UNCHANGED <<lvars, mvars>>
    \/ \E d \in WindowInput : KeyError(d) /\ UNCHANGED <<lvars, mvars>>
    \/ \E d \in WindowInput : Ingest(d) /\ UNCHANGED <<lvars, mvars>>

SpecWindow == Init /\ [][WindowNext]_vars

(***************************************************************************)
(* SpecLoop: the consumer's loop for MaxLoop turns from second StartNow,   *)
(* a telegram each turn, with or without the power delivered, or bytes     *)
(* that are no JSON; a signal may end it between two turns.                *)
(***************************************************************************)
LoopSteps == {1, 180, 300}

\* the second a turn begins
LoopTimes == IF received = << >> THEN {StartNow} ELSE {now + s : s \in LoopSteps}

LoopDatagrams(t) ==
    {DatagramAt(Sender, Len(received) + 1, 1000 * t + 250, 400, tg) :
        tg \in {TelegramFull, Without(TelegramFull, "1-0:2.7.0")}}
        \cup {Garbage(Sender)}

LoopInput == IF Len(received) < MaxLoop THEN LoopTimes ELSE {}

LoopNext ==
    \/ \E t \in LoopInput : \E d \in LoopDatagrams(t) : Iterate(t, d) /\ UNCHANGED lvars
    \/ \E t \in LoopInput : \E d \in LoopDatagrams(t) : IterateJsonError(t, d) /\ UNCHANGED lvars
    \/ do_exit /\ UNCHANGED lvars

SpecLoop == Init /\ [][LoopNext]_vars

(***************************************************************************)
(* SpecExport: the consumer's loop for MaxExport turns on whole telegrams, *)
(* the turns far enough apart for the batch export to fire twice.          *)
(***************************************************************************)
ExportSteps == {180, 300, 1200}

ExportTimes == IF received = << >> THEN {StartNow} ELSE {now + s : s \in ExportSteps}

ExportInput == IF Len(received) < MaxExport THEN ExportTimes ELSE {}

ExportNext ==
    \/ \E t \in ExportInput :
          Iterate(t, DatagramAt(Sender, Len(received) + 1, 1000 * t + 250, 400, TelegramFull))
              /\ UNCHANGED lvars
    \/ do_exit /\ UNCHANGED lvars

SpecExport == Init /\ [][ExportNext]_vars

(***************************************************************************)
(* SpecSignal: the consumer's loop for MaxTurns turns, where a signal may  *)
(* arrive between two turns or inside the flush_data main called; a turn   *)
(* whose weekly flush is due is taken in two steps.                        *)
(***************************************************************************)
SignalInput == IF Len(received) < MaxTurns /\ reader = "running" THEN LoopTimes ELSE {}

\* line 590 is true in the turn for d at time t
WeeklyDue(t, d) ==
    /\ d.json
    /\ \E m \in {TurnToWeekly(t, d)} :
          m.r.ok /\ Due(t, weekly_log_flushperiod, 5, m.weekly_flushtime)

SignalNext ==
    \/ \E t \in SignalInput : \E d \in LoopDatagrams(t) :
          ~WeeklyDue(t, d) /\ Iterate(t, d) /\ UNCHANGED lvars
    \/ \E t \in SignalInput : \E d \in LoopDatagrams(t) : IterateToFlush(t, d) /\ UNCHANGED lvars
    \/ FlushClose /\ UNCHANGED lvars
    \/ do_exit /\ UNCHANGED lvars
    \/ do_exit_in_flush /\ UNCHANGED lvars

SpecSignal == Init /\ [][SignalNext]_vars

(***************************************************************************)
(* What the properties say of lines, in their own terms.                   *)
(***************************************************************************)
IsHeaderLine(l) == Len(l) >= 1 /\ Head(l) = "/"

\* '!' and four more characters
IsEndLine(l) == Len(l) = 5 /\ Head(l) = "!"

Count(l, c) == Cardinality({i \in 1..Len(l) : l[i] = c})

\* the text of l before its first c (all of l when it holds none)
Before(l, c) == SubSeq(l, 1, Cardinality({i \in 1..Len(l) : \A j \in 1..i : l[j] # c}))

\* the text of l after its first c
After(l, c) == SubSeq(l, Len(Before(l, c)) + 2, Len(l))

\* l with every run of digits written as one "9"
RECURSIVE Shape(_)
Shape(l) ==
    IF l = << >> THEN << >>
    ELSE IF Head(l) \notin Digits THEN <<Head(l)>> \o Shape(Tail(l))
    ELSE IF Len(l) >= 2 /\ l[2] \in Digits THEN Shape(Tail(l))
    ELSE <<"9">> \o Shape(Tail(l))

\* an OBIS code A-B:C.D.E
IsObisKey(k) == Shape(k) = <<"9", "-", "9", ":", "9", ".", "9", ".", "9">>

\* code(value): one pair of parentheses, closing the line
OneForm(l) ==
    /\ Count(l, "(") = 1
    /\ Count(l, ")") = 1
    /\ l[Len(l)] = ")"
    /\ IsObisKey(Before(l, "("))

FormKey(l) == Before(l, "(")

\* the value of code(value), the first value of code(value1)(value2)
FormValue1(l) == Before(After(l, "("), ")")

\* the second value of code(value1)(value2)
FormValue2(l) == Before(After(After(l, "("), "("), ")")

\* code(value1)(value2): two pairs of parentheses, one after the other
TwoForm(l) ==
    /\ Count(l, "(") = 2
    /\ Count(l, ")") = 2
    /\ l[Len(l)] = ")"
    /\ IsObisKey(Before(l, "("))
    /\ Len(After(l, "(")) - Len(After(After(l, "("), "(")) = Len(FormValue1(l)) + 2

\* a field line whose values decode
IsFieldLine(l) ==
    \/ OneForm(l) /\ parse_p1_value(FormValue1(l)) # Raised
    \/ /\ TwoForm(l)
       /\ parse_p1_value(FormValue1(l)) # Raised
       /\ parse_p1_value(FormValue2(l)) # Raised

\* ls is a sequence of whole frames: header, field lines, end line
RECURSIVE WellFormed(_, _)
WellFormed(ls, inFrame) ==
    IF ls = << >> THEN ~inFrame
    ELSE IF ~inFrame THEN IsHeaderLine(Head(ls)) /\ WellFormed(Tail(ls), TRUE)
    ELSE IF IsEndLine(Head(ls)) THEN WellFormed(Tail(ls), FALSE)
    ELSE IsFieldLine(Head(ls)) /\ WellFormed(Tail(ls), TRUE)

Headers(ls) == SelectSeq(ls, IsHeaderLine)
Ends(ls) == SelectSeq(ls, IsEndLine)

IsFrameEvent(e) == e \in {"First line found", "End line found"}
FrameEvents == SelectSeq(log, IsFrameEvent)

\* a step of the producer that read a line
LineRead == lines_in' # lines_in
TheLine == lines_in'[Len(lines_in')]

\* the OBIS entries of a telegram
FieldKeys(tg) == (DOMAIN tg) \ {HeaderKey, ChecksumKey}

(***************************************************************************)
(* C1: for an input of N whole, well-formed frames the decoder starts N    *)
(* frames and ends N frames, a start and an end in turn, and has sent N    *)
(* telegrams: the i-th carries frame-number i, the header of the i-th      *)
(* frame and the checksum of its end line.                                 *)
(***************************************************************************)
C1_FramesOneToOne ==
    WellFormed(lines_in, FALSE) =>
        /\ Len(FrameEvents) = 2 * Len(Headers(lines_in))
        /\ \A i \in 1..Len(FrameEvents) :
              FrameEvents[i] = IF i % 2 = 1 THEN "First line found" ELSE "End line found"
        /\ Len(sent) = Len(Headers(lines_in))
        /\ \A i \in 1..Len(sent) :
              /\ sent[i].meta["frame-number"] = i
              /\ sent[i].telegram[HeaderKey] = StrVal(Headers(lines_in)[i])
              /\ sent[i].telegram[ChecksumKey] = StrVal(Tail(Ends(lines_in)[i]))

\* two whole frames have been read
C1_Witness ==
    /\ WellFormed(lines_in, FALSE)
    /\ Len(Headers(lines_in)) = 2
    /\ Len(sent) = 2

(***************************************************************************)
(* C2: a '/' line read while InFrame restarts framing: the telegram sent   *)
(* at the next frame end carries the header read last, and no field that   *)
(* was decoded before that header.                                         *)
(***************************************************************************)
LastHeaderAt(ls) == Cardinality({i \in 1..Len(ls) : \E j \in i..Len(ls) : IsHeaderLine(ls[j])})

KeysOfLine(l) ==
    IF P1_ONE_VALUE_RGX(l) THEN {OneValueGroups(l).key}
    ELSE IF P1_TWO_VALUES_RGX(l)
    THEN {TwoValuesGroups(l).key \o <<".", "A">>, TwoValuesGroups(l).key \o <<".", "B">>}
    ELSE {}

KeysOfLines(ls, lo, hi) == UNION {KeysOfLine(ls[i]) : i \in lo..hi}

JustEnded == Len(log) >= 1 /\ log[Len(log)] = "End line found"

C2_SecondHeaderRestarts ==
    JustEnded =>
        /\ sent[Len(sent)].telegram[HeaderKey] = StrVal(lines_in[LastHeaderAt(lines_in)])
        /\ FieldKeys(sent[Len(sent)].telegram)
              \subseteq KeysOfLines(lines_in, LastHeaderAt(lines_in) + 1, Len(lines_in))

(***************************************************************************)
(* C3: while InFrame a line ends the frame exactly when it is '!' and four *)
(* more characters: then one telegram is sent, its checksum those four     *)
(* characters whatever they are, and the decoder is Idle; after any other  *)
(* line nothing is sent and the decoder is still InFrame.                  *)
(***************************************************************************)
C3_FrameEndRule ==
    [][(first_line_read /\ LineRead) =>
          IF IsEndLine(TheLine)
          THEN /\ Len(sent') = Len(sent) + 1
               /\ SubSeq(sent', 1, Len(sent)) = sent
               /\ sent'[Len(sent')].telegram[ChecksumKey] = StrVal(SubSeq(TheLine, 2, 5))
               /\ ~first_line_read'
          ELSE /\ sent' = sent
               /\ first_line_read']_vars

\* a '!' line of six characters was read InFrame, then one of five
C3_Witness ==
    /\ Len(lines_in) = 3
    /\ lines_in[2] = LineEndLong
    /\ lines_in[3] = LineEndA0F3
    /\ Len(sent) = 1

(***************************************************************************)
(* C4: a line read while Idle that does not begin with '/', and a line     *)
(* read while InFrame that is no frame end and matches neither pattern,    *)
(* leave the frame state, the buffered fields and header, the sequence     *)
(* counter and the telegrams sent as they were.                            *)
(***************************************************************************)
IsIgnored(l) ==
    \/ ~first_line_read /\ ~IsHeaderLine(l)
    \/ /\ first_line_read
       /\ ~IsEndLine(l)
       /\ ~P1_ONE_VALUE_RGX(l)
       /\ ~P1_TWO_VALUES_RGX(l)

C4_IgnoredLineChangesNothing ==
    [][(LineRead /\ IsIgnored(TheLine)) =>
          UNCHANGED <<first_line_read, data, datagram_counter, sent, listener>>]_vars

\* a line was ignored Idle, and one InFrame with a field buffered
C4_Witness ==
    /\ Len(lines_in) = 4
    /\ lines_in[1] = LineEndLong
    /\ lines_in[2] = HeaderISK5
    /\ lines_in[3] = LinePowerIn
    /\ lines_in[4] = LineEmpty
    /\ first_line_read

(***************************************************************************)
(* C5: every telegram sent holds a header entry, a line that begins with   *)
(* '/', and a checksum entry, a string of 4 characters, and no other entry *)
(* that is a header or a checksum.                                         *)
(***************************************************************************)
C5_OneHeaderOneChecksum ==
    \A i \in 1..Len(sent) :
        /\ HeaderKey \in DOMAIN sent[i].telegram
        /\ sent[i].telegram[HeaderKey].t = "str"
        /\ IsHeaderLine(sent[i].telegram[HeaderKey].s)
        /\ ChecksumKey \in DOMAIN sent[i].telegram
        /\ sent[i].telegram[ChecksumKey].t = "str"
        /\ Len(sent[i].telegram[ChecksumKey].s) = 4
        /\ \A k \in FieldKeys(sent[i].telegram) :
              ~(sent[i].telegram[k].t = "str" /\ IsHeaderLine(sent[i].telegram[k].s))

\* two telegrams were sent, with different headers
C5_Witness ==
    /\ Len(sent) = 2
    /\ sent[1].telegram[HeaderKey] # sent[2].telegram[HeaderKey]

(***************************************************************************)
(* C8: the lines '/ISK5\2M550T-1013', '1-0:1.7.0(00.500*kW)',              *)
(* '1-0:2.7.0(00.100*kW)', '!1234' read by an Idle decoder give one        *)
(* telegram: that header, 1-0:1.7.0 = 500, 1-0:2.7.0 = 100, checksum       *)
(* '1234'; and the decoder is Idle again.                                  *)
(***************************************************************************)
C8_Lines == <<HeaderISK5, LinePowerIn, LinePowerOut, LineEnd1234>>

C8_Telegram ==
    Put(Put(Put(Put(EmptyDict, HeaderKey, StrVal(HeaderISK5)),
                KeyPowerIn, IntVal(500)),
            KeyPowerOut, IntVal(100)),
        ChecksumKey, StrVal(<<"1", "2", "3", "4">>))

C8_EndToEnd ==
    lines_in = C8_Lines =>
        /\ Len(sent) = 1
        /\ sent[1].telegram = C8_Telegram
        /\ sent[1].meta["frame-number"] = 1
        /\ ~first_line_read
        /\ data = NewData
        /\ listener = "running"

\* the four lines have been read
C8_Witness == lines_in = C8_Lines /\ Len(sent) = 1

(***************************************************************************)
(* The state after the field line of the one frame of SpecFrame.           *)
(***************************************************************************)
FieldRead == Len(lines_in) = 3 /\ listener = "running"
FieldLine == lines_in[3]

EndsWith(v, tail) ==
    Len(v) >= Len(tail) /\ SubSeq(v, Len(v) - Len(tail) + 1, Len(v)) = tail

\* the text of v before its unit
Lead(v) == Before(v, "*")

\* the unit a value carries: one of the four, none, or another
UnitOf(v) ==
    IF EndsWith(v, <<"*", "m", "3">>) THEN "m3"
    ELSE IF EndsWith(v, <<"*", "k", "W">>) THEN "kW"
    ELSE IF EndsWith(v, <<"*", "V">>) THEN "V"
    ELSE IF EndsWith(v, <<"*", "A">>) THEN "A"
    ELSE IF Count(v, "*") = 0 THEN "none"
    ELSE "other"

\* the decimal number q times 1000, its fraction dropped
TimesThousand(q) == (q.mant * 1000) \div Pow10(q.frac)

\* what the value is to decode to
Decoded(v) ==
    CASE UnitOf(v) \in {"m3", "kW"} -> IntVal(TimesThousand(DecOf(Lead(v))))
      [] UnitOf(v) = "V" -> FloatVal(NormDec(DecOf(Lead(v))))
      [] UnitOf(v) = "A" -> IntVal(DigitsToNat(Lead(v)))
      [] UnitOf(v) = "none" -> StrVal(v)

\* a value the unit rules speak of: a decimal number with one of the decimal
\* units, an integer with *A, or text with no unit
HasUnitRule(v) ==
    \/ UnitOf(v) \in {"m3", "kW", "V"} /\ IsFloatLiteral(Lead(v))
    \/ UnitOf(v) = "A" /\ IsIntLiteral(Lead(v))
    \/ UnitOf(v) = "none"

(***************************************************************************)
(* C6: a value with suffix *m3 or *kW decodes to the leading decimal       *)
(* number times 1000, truncated to an integer; with *V to the leading      *)
(* decimal number; with *A to the leading integer; with no unit to the     *)
(* text itself.  1-0:1.7.0(00.000*kW) gives 1-0:1.7.0 = 0.                 *)
(***************************************************************************)
C6_UnitDecoding ==
    (FieldRead /\ OneForm(FieldLine) /\ HasUnitRule(FormValue1(FieldLine))) =>
        /\ FormKey(FieldLine) \in DOMAIN data.telegram
        /\ data.telegram[FormKey(FieldLine)] = Decoded(FormValue1(FieldLine))

(***************************************************************************)
(* C7: InFrame, a line code(value1)(value2) stores value1 decoded under    *)
(* code.A and value2 decoded under code.B and nothing else, so nothing     *)
(* under code; a line code(value) stores the value decoded under code and  *)
(* nothing else; and no line matches both patterns.                        *)
(***************************************************************************)
C7_TwoValuesStoredAsAB ==
    [][(first_line_read /\ LineRead /\ listener' = "running") =>
          /\ ~(P1_ONE_VALUE_RGX(TheLine) /\ P1_TWO_VALUES_RGX(TheLine))
          /\ TwoForm(TheLine) =>
                data'.telegram =
                    Put(Put(data.telegram, FormKey(TheLine) \o <<".", "A">>,
                            parse_p1_value(FormValue1(TheLine))),
                        FormKey(TheLine) \o <<".", "B">>,
                        parse_p1_value(FormValue2(TheLine)))
          /\ OneForm(TheLine) =>
                data'.telegram =
                    Put(data.telegram, FormKey(TheLine),
                        parse_p1_value(FormValue1(TheLine)))]_vars

\* the gas line was read InFrame: the telegram holds the header and the two
\* entries .A and .B
C7_Witness ==
    /\ FieldRead
    /\ FieldLine = GasLine(6135)
    /\ DOMAIN data.telegram = {HeaderKey, KeyGas \o <<".", "A">>, KeyGas \o <<".", "B">>}
    /\ data.telegram[KeyGas \o <<".", "B">>] = IntVal(6135)

(***************************************************************************)
(* C9: a single-value line with a numeric unit, decoded and written again  *)
(* with that unit, has the same key and the value of the original under    *)
(* the unit's conversion (times 1000 truncated for *kW and *m3, the number *)
(* itself for *V and *A); decoding what was written gives the decoded      *)
(* value again.                                                            *)
(***************************************************************************)
\* the decoded value w written with its unit
Encoded(w, unit) ==
    CASE unit = "kW" -> Thousandths(w.n) \o <<"*", "k", "W">>
      [] unit = "m3" -> Thousandths(w.n) \o <<"*", "m", "3">>
      [] unit = "V" -> Fmt(w.n \div Pow10(w.e), 3) \o <<".">>
                          \o Fmt(w.n % Pow10(w.e), w.e) \o <<"*", "V">>
      [] unit = "A" -> Fmt(w.n, 3) \o <<"*", "A">>

HasNumericUnit(v) == HasUnitRule(v) /\ UnitOf(v) # "none"

C9_RoundTrip ==
    (FieldRead /\ OneForm(FieldLine) /\ HasNumericUnit(FormValue1(FieldLine))) =>
        /\ FormKey(FieldLine) \in DOMAIN data.telegram
        /\ data.telegram[FormKey(FieldLine)] = Decoded(FormValue1(FieldLine))
        /\ parse_p1_value(Encoded(data.telegram[FormKey(FieldLine)],
                                  UnitOf(FormValue1(FieldLine))))
              = data.telegram[FormKey(FieldLine)]

(***************************************************************************)
(* C10: a telegram from the sender of the telegram before it is reported   *)
(* as a gap if and only if its frame-number is not the frame-number of the *)
(* telegram before it plus 1, and after any telegram the frame-number      *)
(* expected is the received one plus 1.  Of the frame-numbers 1, 2, 4 of   *)
(* one sender, the telegram carrying 4 is the one reported.                *)
(***************************************************************************)
Received == received' # received
TheDatagram == received'[Len(received')]
FrameNumber(d) == d.meta["frame-number"]
Gaps(l) == Cardinality({i \in 1..Len(l) : l[i].msg = "Missed telegrams"})

\* the datagrams received are JSON of one sender, with frame-numbers fns
ReceivedOf(fns) ==
    /\ Len(received) = Len(fns)
    /\ \A i \in 1..Len(received) :
          /\ received[i].json
          /\ received[i].who = received[1].who
          /\ FrameNumber(received[i]) = fns[i]

C10_SequenceTracking ==
    [][(Received /\ TheDatagram.json) =>
          /\ telegram_framenumber' = FrameNumber(TheDatagram) + 1
          /\ (received # << >> /\ TheDatagram.who = who) =>
                /\ received[Len(received)].json
                /\ Gaps(rlog') - Gaps(rlog) =
                      IF FrameNumber(TheDatagram) # FrameNumber(received[Len(received)]) + 1
                      THEN 1 ELSE 0
          /\ (ReceivedOf(<<1, 2>>) /\ TheDatagram.who = who /\ FrameNumber(TheDatagram) = 4) =>
                Gaps(rlog) = 0 /\ Gaps(rlog') = 1]_vars

\* 1, 2, 4 of one sender were received: one gap is in the log, and 5 is next
C10_Witness ==
    /\ ReceivedOf(<<1, 2, 4>>)
    /\ reader = "running"
    /\ Gaps(rlog) = 1
    /\ telegram_framenumber = 5

(***************************************************************************)
(* C11: a telegram of a sender other than the one last seen, the first     *)
(* telegram after start included, sets the expected frame-number from its  *)
(* own and is not reported as a gap, whatever its frame-number.            *)
(***************************************************************************)
C11_SenderChangeResets ==
    [][(Received /\ TheDatagram.json /\ TheDatagram.who # who) =>
          /\ who' = TheDatagram.who
          /\ telegram_framenumber' = FrameNumber(TheDatagram) + 1
          /\ Gaps(rlog') = Gaps(rlog)]_vars

\* frame-number 1 of one sender, then 4 of the other: no gap is in the log
C11_Witness ==
    /\ Len(received) = 2
    /\ received[1].json /\ received[2].json
    /\ received[1].who # received[2].who
    /\ FrameNumber(received[1]) = 1
    /\ FrameNumber(received[2]) = 4
    /\ reader = "running"
    /\ who = received[2].who
    /\ telegram_framenumber = 5
    /\ Gaps(rlog) = 0

(***************************************************************************)
(* C12: a gap has no effect on the accumulators: a telegram changes        *)
(* lastten, measurements, the open interval, the closed intervals and      *)
(* what is returned for the detail log as the same telegram carrying the   *)
(* expected frame-number would.                                            *)
(***************************************************************************)
Accumulators(st) ==
    <<st.lastten, st.measurements, st.csvverbruik, st.csvlevering, st.csvdata, st.csvfm, st.ok>>

\* d carrying the frame-number that is not reported
InSequence(d) ==
    IF d.who = who /\ Has(d.meta, "frame-number")
    THEN [d EXCEPT !.meta["frame-number"] = telegram_framenumber]
    ELSE d

\* line 428: what read_datagram returns to main, which appends it to datagrams
Returned(d) == Telegram(d)

C12_GapLeavesAccumulators ==
    [][(Received /\ TheDatagram.json) =>
          /\ <<lastten', measurements', csvverbruik', csvlevering', csvdata', csvfm',
               reader' = "running">> = Accumulators(Handled(InSequence(TheDatagram)))
          /\ Returned(TheDatagram) = Returned(InSequence(TheDatagram))]_vars

\* 1 and then 3 of one sender: the gap is in the log and both samples are held
C12_Witness ==
    /\ ReceivedOf(<<1, 3>>)
    /\ reader = "running"
    /\ Gaps(rlog) = 1
    /\ Len(lastten) = 2
    /\ Len(csvverbruik) = 1
    /\ Len(csvdata) = 1

(***************************************************************************)
(* C13: lastten never holds more than 120 samples: after 121 samples it    *)
(* holds 120, the samples 2..121 in the order they came, and after any     *)
(* number of samples at most 120.                                          *)
(***************************************************************************)
\* the sample of the i-th datagram received
SampleOf(i) == LastTenRow(telegram_time(received[i]), Telegram(received[i]))

C13_RollingBufferCapacity ==
    /\ Len(lastten) <= 120
    /\ (reader = "running" /\ Len(received) = 121) =>
          /\ Len(lastten) = 120
          /\ \A i \in 1..120 : lastten[i] = SampleOf(i + 1)

(***************************************************************************)
(* C14: grouping partitions the buffer into runs: for a buffer that is not *)
(* empty every sample is in exactly one run, the runs keep the order of    *)
(* the buffer, and the samples of a run share t // 10.                     *)
(***************************************************************************)
RECURSIVE Flatten(_)
Flatten(runs) == IF runs = << >> THEN << >> ELSE Head(runs) \o Flatten(Tail(runs))

SharesTenSeconds(run) == \A i, j \in 1..Len(run) : run[i][1] \div 10 = run[j][1] \div 10

C14_GroupingPartitions ==
    lastten # << >> =>
        /\ ~sorted_rows(lastten).none
        /\ Flatten(sorted_rows(lastten).runs) = lastten
        /\ \A r \in 1..Len(sorted_rows(lastten).runs) :
              SharesTenSeconds(sorted_rows(lastten).runs[r])

(***************************************************************************)
(* C15: on a telegram at time t with the interval open since c, the        *)
(* interval is closed (a row is recorded, c becomes t and the two sample   *)
(* lists are emptied) if and only if t mod 300 < 3 and t - c >= 10, or     *)
(* t - c > 300; otherwise it stays open and gains the new sample.          *)
(***************************************************************************)
Ingested == Received /\ TheDatagram.json /\ reader' = "running"

ClosesAt(t, c) == (t % 300 < 3 /\ t - c >= 10) \/ t - c > 300

IntervalClosed(t) ==
    /\ Len(csvdata') = Len(csvdata) + 1
    /\ csvdata'[Len(csvdata')][1] = t
    /\ csvfm' = t
    /\ csvverbruik' = << >>
    /\ csvlevering' = << >>

IntervalGains(tg) ==
    /\ csvdata' = csvdata
    /\ csvfm' = csvfm
    /\ csvverbruik' = Append(csvverbruik, tg["1-0:1.7.0"])
    /\ csvlevering' = Append(csvlevering, tg["1-0:2.7.0"])

C15_IntervalCloseCondition ==
    [][Ingested =>
          IF ClosesAt(telegram_time(TheDatagram), csvfm)
          THEN IntervalClosed(telegram_time(TheDatagram))
          ELSE IntervalGains(Returned(TheDatagram))]_vars

(***************************************************************************)
(* C16: a closed interval reports the least, the average (sum over count)  *)
(* and the greatest of exactly the power samples ingested after the close  *)
(* before it up to and including the telegram that closed it, and the      *)
(* first sample after a close belongs to a new interval.  Samples at       *)
(* t = 0, 60, 120, 180, 240, 300 with 10, 20, 10, 20, 10, 20 W taken give  *)
(* one interval, closed at 300, with average 15, least 10, greatest 20.    *)
(***************************************************************************)
\* the datagram that closed the j-th interval of csvdata; 0 for j = 0
CloseIndex(j) ==
    IF j = 0 THEN 0
    ELSE CHOOSE i \in 1..Len(received) : telegram_time(received[i]) = csvdata[j][1]

PowerIn(i) == Telegram(received[i])["1-0:1.7.0"]
PowerOut(i) == Telegram(received[i])["1-0:2.7.0"]

\* the samples of the datagrams after the a-th up to the b-th
SamplesIn(a, b) == [i \in 1..(b - a) |-> PowerIn(a + i)]
SamplesOut(a, b) == [i \in 1..(b - a) |-> PowerOut(a + i)]

RECURSIVE SumOf(_)
SumOf(list) == IF list = << >> THEN 0 ELSE Head(list) + SumOf(Tail(list))

IsLeast(m, list) == (\E i \in 1..Len(list) : list[i] = m) /\ (\A i \in 1..Len(list) : m <= list[i])
IsGreatest(m, list) == (\E i \in 1..Len(list) : list[i] = m) /\ (\A i \in 1..Len(list) : m >= list[i])

\* the report of a list of samples is their least, average and greatest
ReportsOver(list) ==
    /\ IsLeast(CsvStats(list).min, list)
    /\ IsGreatest(CsvStats(list).max, list)
    /\ ~CsvStats(list).avg.raised
    /\ CsvStats(list).avg.num = SumOf(list)
    /\ CsvStats(list).avg.den = Len(list)

SixSamples ==
    /\ Len(received) = 6
    /\ \A i \in 1..6 : telegram_time(received[i]) = 60 * (i - 1)
    /\ \A i \in 1..6 : PowerIn(i) = IF i % 2 = 1 THEN 10 ELSE 20

GainsMeasurement ==
    /\ Len(measurements') = Len(measurements) + 1
    /\ SubSeq(measurements', 1, Len(measurements)) = measurements
    /\ measurements'[Len(measurements')][1] = telegram_time(TheDatagram)

C17_WeeklySampling ==
    [][Received =>
          /\ GainsMeasurement \/ measurements' = measurements
          /\ Ingested => (GainsMeasurement <=> telegram_time(TheDatagram) % 30 = 0)
          /\ \A i \in 1..Len(measurements') : measurements'[i][1] % 30 = 0]_vars

\* three telegrams ingested, at 290, 300 and 301: one is sampled
C17_Witness ==
    /\ Len(received) = 3
    /\ reader = "running"
    /\ telegram_time(received[1]) = 290
    /\ telegram_time(received[2]) = 300
    /\ telegram_time(received[3]) = 301
    /\ Len(measurements) = 1
    /\ measurements[1][1] = 300

(***************************************************************************)
(* C18: a telegram without the key 1-0:2.7.0 is ingested, with 0 for the   *)
(* power delivered: the sample of lastten, the sample of the interval and, *)
(* when the telegram is sampled, the row of measurements all hold 0.       *)
(***************************************************************************)
LacksPowerOutOnly(d) ==
    /\ d.json
    /\ ~Has(d.telegram, "1-0:2.7.0")
    /\ HasEnergy(d.telegram)
    /\ Has(d.telegram, "1-0:1.7.0")

Last(list) == list[Len(list)]

\* the sample of the interval, which this telegram may have closed
IntervalSampleOut ==
    IF Len(csvdata') > Len(csvdata) THEN Last(Last(csvdata')[5]) ELSE Last(csvlevering')

C18_MissingPowerOutIsZero ==
    [][(Received /\ LacksPowerOutOnly(TheDatagram)) =>
          /\ reader' = "running"
          /\ Len(lastten') > 0
          /\ Last(lastten') = <<telegram_time(TheDatagram), TheDatagram.telegram["1-0:1.7.0"], 0>>
          /\ Len(csvdata') > Len(csvdata) \/ Len(csvlevering') = Len(csvlevering) + 1
          /\ IntervalSampleOut = 0
          /\ telegram_time(TheDatagram) % 30 = 0 =>
                /\ Len(measurements') = Len(measurements) + 1
                /\ Last(measurements')[7] = 0]_vars

\* the first telegram had no 1-0:2.7.0 and was sampled
C18_Witness ==
    /\ Len(received) = 1
    /\ LacksPowerOutOnly(received[1])
    /\ reader = "running"
    /\ lastten = <<<<86400, 500, 0>>>>
    /\ Len(measurements) = 1
    /\ measurements[1][7] = 0
    /\ Len(csvdata) = 1
    /\ csvdata[1][5] = <<0>>

(***************************************************************************)
(* C19: no missing field is fatal: whichever of the keys 1-0:1.7.0,        *)
(* 1-0:1.8.1, 1-0:1.8.2, 1-0:2.8.1, 1-0:2.8.2, 1-0:2.7.0 a parsed telegram *)
(* lacks, the ingest completes and the consumer goes on to the next        *)
(* message.                                                                *)
(***************************************************************************)
C19_NoMissingFieldIsFatal ==
    [][(Received /\ TheDatagram.json) =>
          /\ reader' = "running"
          /\ Len(lastten') > 0
          /\ Last(lastten')[1] = telegram_time(TheDatagram)]_vars

(***************************************************************************)
(* C20: a payload that fails to parse is dropped: the sequence tracker,    *)
(* lastten, measurements, the intervals and the detail log are unchanged   *)
(* by it, and the consumer goes on to receive and ingest later messages.   *)
(***************************************************************************)
C20_UnparsedPayloadDropped ==
    [][(Received /\ ~TheDatagram.json) =>
          /\ UNCHANGED <<who, telegram_framenumber, lastten, measurements, csvdata,
                         csvverbruik, csvlevering, csvfm>>
          /\ reader' = "running"]_vars

(***************************************************************************)
(* C29: the telegrams one producer run sends carry the frame-numbers       *)
(* 1, 2, 3, ... in the order sent, each one more than the one before, so a *)
(* consumer that receives them all in order reports no gap.                *)
(***************************************************************************)
\* the i-th telegram sent, as the consumer receives it
AsReceived(i) == [who |-> Sender, json |-> TRUE, meta |-> sent[i].meta, telegram |-> EmptyDict]

\* lines 383-393 of the consumer on the telegrams sent from the i-th on
RECURSIVE TrackedFrom(_, _)
TrackedFrom(st, i) ==
    IF i > Len(sent) THEN st
    ELSE TrackedFrom(Advance(GapCheck(SenderCheck(st, AsReceived(i)), AsReceived(i))), i + 1)

C29_FrameNumbersConsecutive ==
    /\ \A i \in 1..Len(sent) : sent[i].meta["frame-number"] = i
    /\ Gaps(TrackedFrom(ReaderState, 1).log) = 0
    /\ TrackedFrom(ReaderState, 1).ok

\* two telegrams were sent
C29_Witness ==
    /\ Len(sent) = 2
    /\ sent[2].meta["frame-number"] = sent[1].meta["frame-number"] + 1
    /\ TrackedFrom(ReaderState, 1).fn = 3

(***************************************************************************)
(* C30: frames are isolated: every field of a telegram sent was decoded    *)
(* from a line read after the header line of that telegram and before its  *)
(* end line; no field of an earlier frame and no line read while Idle is   *)
(* in a later telegram.                                                    *)
(***************************************************************************)
\* the lines that opened and closed the frames sent so far, as pairs, for
\* the lines from the i-th on; start is 0 while Idle
RECURSIVE SpansFrom(_, _, _)
SpansFrom(ls, i, start) ==
    IF i > Len(ls) THEN << >>
    ELSE IF start = 0
    THEN SpansFrom(ls, i + 1, IF IsHeaderLine(ls[i]) THEN i ELSE 0)
    ELSE IF IsEndLine(ls[i]) THEN <<<<start, i>>>> \o SpansFrom(ls, i + 1, 0)
    ELSE SpansFrom(ls, i + 1, start)

Spans == SpansFrom(lines_in, 1, 0)

\* the line stores v under k
Stores(l, k, v) ==
    \/ /\ P1_ONE_VALUE_RGX(l)
       /\ k = OneValueGroups(l).key
       /\ v = parse_p1_value(OneValueGroups(l).value)
    \/ /\ ~P1_ONE_VALUE_RGX(l)
       /\ P1_TWO_VALUES_RGX(l)
       /\ \/ k = TwoValuesGroups(l).key \o <<".", "A">>
             /\ v = parse_p1_value(TwoValuesGroups(l).value1)
          \/ k = TwoValuesGroups(l).key \o <<".", "B">>
             /\ v = parse_p1_value(TwoValuesGroups(l).value2)

C30_FramesIsolated ==
    \E spans \in {Spans} :
        /\ Len(sent) = Len(spans)
        /\ \A i \in 1..Len(sent) :
              /\ sent[i].telegram[HeaderKey] = StrVal(lines_in[spans[i][1]])
              /\ \A k \in FieldKeys(sent[i].telegram) :
                    \E j \in (spans[i][1] + 1)..(spans[i][2] - 1) :
                        Stores(lines_in[j], k, sent[i].telegram[k])

\* a frame with the power taken and a frame without a field: the second
\* telegram holds its header and checksum only
C30_Witness ==
    /\ lines_in = <<HeaderISK5, LinePowerIn, LineEnd1234, HeaderISK5, LineEnd1234>>
    /\ Len(sent) = 2
    /\ DOMAIN sent[1].telegram = {HeaderKey, KeyPowerIn, ChecksumKey}
    /\ DOMAIN sent[2].telegram = {HeaderKey, ChecksumKey}


(***************************************************************************)
(* C27: a failed line read is never fatal: every failure is logged and     *)
(* followed by a sleep of the fixed delay and a new read, failures and     *)
(* retries leave the frame state, the buffered fields, the counter and the *)
(* telegrams sent as they were, and the frame state, the counter and the   *)
(* number of telegrams sent are at all times the ones the lines read so    *)
(* far give, however many reads failed in between.                         *)
(***************************************************************************)
\* the line that opened the frame the decoder is in after the lines from
\* the i-th on, 0 when it is Idle
RECURSIVE OpenFrom(_, _, _)
OpenFrom(ls, i, start) ==
    IF i > Len(ls) THEN start
    ELSE IF start = 0
    THEN OpenFrom(ls, i + 1, IF IsHeaderLine(ls[i]) THEN i ELSE 0)
    ELSE OpenFrom(ls, i + 1, IF IsEndLine(ls[i]) THEN 0 ELSE start)

Open == OpenFrom(lines_in, 1, 0)

DecoderState == <<first_line_read, data, datagram_counter, sent, lines_in>>

\* a step of a failed read that no signal caused
FailedRead == log' = Append(log, ReadError) /\ signals' = signals

C27_ReadFailureNotFatal ==
    /\ [](/\ signals = 0 => listener \in {"running", "sleeping", "crashed"}
          /\ first_line_read = (Open # 0)
          /\ \E n \in {Len(Spans)} :
                /\ datagram_counter = n + (IF Open # 0 THEN 1 ELSE 0)
                /\ Len(sent) = n)
    /\ [][/\ FailedRead => listener' = "sleeping" /\ UNCHANGED DecoderState
          /\ listener = "sleeping" /\ signals' = signals =>
                /\ listener' = "running"
                /\ clock' = clock + RetryDelay
                /\ UNCHANGED DecoderState]_vars

\* two reads in a row failed inside a frame, and the telegram of the frame
\* was sent with the field read before the failures
C27_Witness ==
    /\ lines_in = <<HeaderISK5, LinePowerIn, LineEnd1234>>
    /\ signals = 0
    /\ \E i \in 1..(Len(log) - 1) : log[i] = ReadError /\ log[i + 1] = ReadError
    /\ Len(sent) = 1
    /\ KeyPowerIn \in DOMAIN sent[1].telegram
    /\ sent[1].meta["frame-time-duration"] >= 2 * 1000 * RetryDelay

(***************************************************************************)
(* C28: a termination signal delivered while a line read is in flight      *)
(* ends the producer: after such a signal no further line is read.         *)
(***************************************************************************)
C28_SignalEndsReading == [][signals > 0 => lines_in' = lines_in]_vars


(***************************************************************************)
(* C21: when a termination signal has ended the consumer, every            *)
(* accumulator has been flushed: no telegram is pending for the detail     *)
(* export, no measurement for the weekly log, no closed interval for the   *)
(* batch export, and the HTML page has been written.                       *)
(***************************************************************************)
C21_SignalFlushesAll ==
    reader = "exited" =>
        /\ datagrams = << >>
        /\ measurements = << >>
        /\ csvdata = << >>
        /\ html_file.complete

(***************************************************************************)
(* C22: in every turn of the loop each exporter flushes if and only if     *)
(* (now mod P) < threshold and (now - last_flush) > 0.25 P, with P and     *)
(* threshold 300 and 5 for the detail export, 30 and 2 for the HTML page,  *)
(* 30 and 5 for the weekly log, 1800 and 5 for the batch export; a flush   *)
(* sets last_flush to now; each decision depends on its own last_flush     *)
(* only.                                                                   *)
(***************************************************************************)
\* a turn of the loop ran to its end
Turned == Ingested

\* the exporter of period P fires in this turn
Fires(P, threshold, last) ==
    /\ (now' % P) < threshold
    /\ 4 * (1000 * now' - last) > 1000 * P

FlushTime(fires, last) == IF fires THEN 1000 * now' ELSE last

C22_FlushCondition ==
    [][Turned =>
        /\ p1_reader_details_flushtime' =
              FlushTime(Fires(300, 5, p1_reader_details_flushtime), p1_reader_details_flushtime)
        /\ html_report_flushtime' =
              FlushTime(Fires(30, 2, html_report_flushtime), html_report_flushtime)
        /\ weekly_log_flushtime' =
              FlushTime(Fires(30, 5, weekly_log_flushtime), weekly_log_flushtime)
        /\ p1_reader_interval_flushtime' =
              FlushTime(Fires(1800, 5, p1_reader_interval_flushtime), p1_reader_interval_flushtime)
        /\ IF Fires(300, 5, p1_reader_details_flushtime)
           THEN /\ datagrams' = << >>
                /\ Len(details_file') > Len(details_file)
           ELSE /\ Len(datagrams') = Len(datagrams) + 1
                /\ details_file' = details_file
        /\ IF Fires(30, 2, html_report_flushtime)
           THEN html_file' = [opened |-> TRUE, rows |-> Reverse(sorted_rows(lastten').runs),
                              complete |-> TRUE]
           ELSE html_file' = html_file
        /\ IF Fires(30, 5, weekly_log_flushtime)
           THEN /\ measurements' = << >>
                /\ weekly_file' = weekly_file \o Handled(TheDatagram).measurements
           ELSE /\ measurements' = Handled(TheDatagram).measurements
                /\ weekly_file' = weekly_file
        /\ IF Fires(1800, 5, p1_reader_interval_flushtime) /\ Len(Handled(TheDatagram).csvdata) >= 3
           THEN /\ csvdata' = << >>
                /\ Len(day_file') = Len(day_file) + Len(Handled(TheDatagram).csvdata)
           ELSE /\ csvdata' = Handled(TheDatagram).csvdata
                /\ day_file' = day_file
                /\ interval_file' = interval_file]_vars

\* a turn in which the four exporters fired
C22_Witness ==
    /\ reader = "running"
    /\ now % 1800 = 0
    /\ p1_reader_details_flushtime = 1000 * now
    /\ html_report_flushtime = 1000 * now
    /\ weekly_log_flushtime = 1000 * now
    /\ p1_reader_interval_flushtime = 1000 * now
    /\ Len(day_file) = 3
    /\ datagrams = << >>

(***************************************************************************)
(* C23: no exporter fires twice: two flushes of one exporter are more than *)
(* 0.25 P apart, and an exporter that has fired in an aligned window       *)
(* [k P, k P + threshold) does not fire again in that window, however many *)
(* turns of the loop fall in it.                                           *)
(***************************************************************************)
\* the flush at millisecond last and second t fall in one aligned window
SameWindow(P, threshold, last, t) ==
    /\ (last \div 1000) \div P = t \div P
    /\ (last \div 1000) % P < threshold
    /\ t % P < threshold

Apart(P, threshold, last, next) ==
    next # last =>
        /\ 4 * (next - last) > 1000 * P
        /\ ~SameWindow(P, threshold, last, next \div 1000)

C23_NoDoubleFiring ==
    [][/\ Apart(300, 5, p1_reader_details_flushtime, p1_reader_details_flushtime')
       /\ Apart(30, 2, html_report_flushtime, html_report_flushtime')
       /\ Apart(30, 5, weekly_log_flushtime, weekly_log_flushtime')
       /\ Apart(1800, 5, p1_reader_interval_flushtime, p1_reader_interval_flushtime')]_vars

\* three turns in one window of the detail export, of the weekly log and of
\* the batch export, which fired in the first
C23_Witness ==
    /\ reader = "running"
    /\ Len(received) >= 3
    /\ now % 1800 = 2
    /\ telegram_time(received[Len(received) - 1]) = now - 1
    /\ telegram_time(received[Len(received) - 2]) = now - 2
    /\ p1_reader_details_flushtime = 1000 * (now - 2)
    /\ weekly_log_flushtime = 1000 * (now - 2)
    /\ p1_reader_interval_flushtime = 1000 * (now - 2)

(***************************************************************************)
(* C24: the time of every line of the batch export is a multiple of 300    *)
(* seconds.                                                                *)
(***************************************************************************)
C24_TimestampFloored == \A i \in 1..Len(day_file) : day_file[i][1] % 300 = 0

(***************************************************************************)
(* C25: every line of the detail export has a field for each key of        *)
(* P1_KEYS, in that order, holding the value of the telegram received if   *)
(* the telegram received has the key, and empty if it has not.             *)
(***************************************************************************)
\* the lines of the detail export after the two header lines
DataRows(file) == IF file = << >> THEN << >> ELSE SubSeq(file, 3, Len(file))

C25_AbsentKeyEmptyField ==
    \A i \in 1..Len(DataRows(details_file)) :
        /\ Len(DataRows(details_file)[i]) = 1 + Len(P1_KEYS)
        /\ \A j \in 1..Len(P1_KEYS) :
              DataRows(details_file)[i][j + 1] =
                  IF P1_KEYS[j] \in DOMAIN received[i].telegram
                  THEN ToString(received[i].telegram[P1_KEYS[j]])
                  ELSE ""

(***************************************************************************)
(* C26: the detail export delivers each telegram once: the lines written   *)
(* followed by the telegrams pending are the telegrams ingested, one each, *)
(* in the order of arrival, and a detail flush leaves none pending.        *)
(***************************************************************************)
\* the datagrams read_datagram returned a telegram for
IsJson(d) == d.json
Arrived == SelectSeq(received, IsJson)

C26_DetailExactlyOnce ==
    /\ [](DataRows(details_file) \o [i \in 1..Len(datagrams) |-> DetailRow(datagrams[i])]
            = [i \in 1..Len(Arrived) |->
                 DetailRow(<<telegram_time(Arrived[i]) + ReadWait, Telegram(Arrived[i])>>)])
    /\ [][p1_reader_details_flushtime' # p1_reader_details_flushtime =>
            /\ datagrams' = << >>
            /\ Len(details_file') >= 2 + Len(Arrived')]_vars

\* two detail flushes, of two telegrams and of one, and two telegrams pending
C26_Witness ==
    /\ reader = "running"
    /\ Len(received) = 5
    /\ Len(DataRows(details_file)) = 3
    /\ Len(datagrams) = 2
    /\ p1_reader_details_flushtime = 1000 * telegram_time(received[3])


(***************************************************************************)
(* C31: lastten is at all times a contiguous suffix of the samples of the  *)
(* telegrams ingested, in arrival order; the sample just ingested is its   *)
(* last, and an ingest removes nothing or the oldest sample only.          *)
(***************************************************************************)
\* the datagrams whose sample was taken: all, or all but the one that raised
SamplesTaken == IF reader = "running" THEN Len(received) ELSE Len(received) - 1

C31_RollingBufferSuffix ==
    /\ [](\E skipped \in {SamplesTaken - Len(lastten)} :
            /\ skipped >= 0
            /\ SamplesTaken > 0 => Len(lastten) > 0
            /\ \A i \in 1..Len(lastten) : lastten[i] = SampleOf(skipped + i))
    /\ [][Ingested =>
            /\ Last(lastten') = LastTenRow(telegram_time(TheDatagram), Telegram(TheDatagram))
            /\ \/ lastten' = Append(lastten, Last(lastten'))
               \/ lastten' = Append(Tail(lastten), Last(lastten'))]_vars

\* the first sample has been evicted
C31_Witness ==
    /\ reader = "running"
    /\ Len(received) = 122
    /\ Len(lastten) = 121
    /\ lastten[1] = SampleOf(2)
    /\ lastten[121] = SampleOf(122)


(***************************************************************************)
(* C32: every closed interval of csvdata holds at least one sample of the  *)
(* power taken and as many of the power delivered, so that no average of   *)
(* the batch export divides by zero; and an ingest leaves the intervals    *)
(* closed before it as they were.                                          *)
(***************************************************************************)
C32_ClosedWindowSamples ==
    /\ [](/\ \A i \in 1..Len(csvdata) :
                /\ Len(csvdata[i][3]) >= 1
                /\ Len(csvdata[i][5]) = Len(csvdata[i][3])
          /\ Written(csvdata) = Len(csvdata))
    /\ [][Received /\ TheDatagram.json =>
            /\ Len(Handled(TheDatagram).csvdata) >= Len(csvdata)
            /\ \A i \in 1..Len(csvdata) : Handled(TheDatagram).csvdata[i] = csvdata[i]
            /\ csvdata' \in {Handled(TheDatagram).csvdata, << >>}]_vars

\* the second interval closed with two samples of each kind, and a
\* telegram was ingested after it
C32_Witness ==
    /\ reader = "running"
    /\ Len(csvdata) = 2
    /\ Len(csvdata[2][3]) = 2
    /\ Len(csvdata[2][5]) = 2
    /\ Len(csvverbruik) = 1


(***************************************************************************)
(* C33: the batch export is all or nothing: called with fewer than 3       *)
(* closed intervals pending it writes no line and leaves them pending;     *)
(* called with 3 or more it writes one line for each, in the order they    *)
(* closed, and leaves none pending.  No interval is written twice.         *)
(***************************************************************************)
\* the signal handler ran to its end
Signalled == reader = "running" /\ reader' = "exited"

\* the line is that of the closed interval w
LineOf(line, w) ==
    /\ line[1] \in {w[1] - 1, w[1]}
    /\ line[2] = w[2]
    /\ line[6] = w[4]

\* print_csv was called on the closed intervals pending
Exported(pending) ==
    IF Len(pending) < 3
    THEN /\ day_file' = day_file
         /\ interval_file' = interval_file
         /\ csvdata' = pending
    ELSE /\ Len(day_file') = Len(day_file) + Len(pending)
         /\ SubSeq(day_file', 1, Len(day_file)) = day_file
         /\ \A i \in 1..Len(pending) : LineOf(day_file'[Len(day_file) + i], pending[i])
         /\ interval_file' = SubSeq(day_file', Len(day_file) + 1, Len(day_file'))
         /\ csvdata' = << >>

C33_BatchExportAllOrNothing ==
    /\ [](/\ \A i, j \in 1..Len(day_file) : i < j => day_file[i][1] < day_file[j][1]
          /\ \A i \in 1..Len(day_file) : \A k \in 1..Len(csvdata) :
                day_file[i][1] < csvdata[k][1] - 1)
    /\ [][/\ Turned /\ Fires(1800, 5, p1_reader_interval_flushtime) =>
                Exported(Handled(TheDatagram).csvdata)
          /\ Signalled => Exported(csvdata)]_vars

\* two exports of three intervals each
C33_Witness ==
    /\ Len(day_file) = 6
    /\ Len(interval_file) = 3
    /\ csvdata = << >>
    /\ reader = "running"


(***************************************************************************)
(* C34: the flushes are independent: print_html leaves lastten as it is;   *)
(* only the weekly flush changes measurements, and it empties it; only the *)
(* batch export changes csvdata; only the detail flush empties datagrams;  *)
(* and no flush changes the open interval, csvfm or the sequence tracker.  *)
(***************************************************************************)
\* what no flush touches is as the ingest st left it
Untouched(st) ==
    /\ lastten' = st.lastten
    /\ csvverbruik' = st.csvverbruik
    /\ csvlevering' = st.csvlevering
    /\ csvfm' = st.csvfm
    /\ who' = st.who
    /\ telegram_framenumber' = st.fn

\* the signal handler ran, to its end or to an exception
Handler == reader = "running" /\ reader' # "running" /\ received' = received

C34_FlushesIndependent ==
    [][/\ Turned =>
            /\ Untouched(Handled(TheDatagram))
            /\ measurements' # Handled(TheDatagram).measurements =>
                  Fires(30, 5, weekly_log_flushtime) /\ measurements' = << >>
            /\ csvdata' # Handled(TheDatagram).csvdata =>
                  Fires(1800, 5, p1_reader_interval_flushtime) /\ csvdata' = << >>
            /\ IF Len(datagrams') = Len(datagrams) + 1
               THEN SubSeq(datagrams', 1, Len(datagrams)) = datagrams
               ELSE Fires(300, 5, p1_reader_details_flushtime) /\ datagrams' = << >>
       /\ Handler =>
            /\ Untouched(ReaderState)
            /\ datagrams' = datagrams
            /\ measurements' = << >>
            /\ csvdata' \in {csvdata, << >>}]_vars

\* a turn in which the four exporters fired on a buffer of three samples
C34_Witness ==
    /\ reader = "running"
    /\ html_report_flushtime = 1000 * now
    /\ weekly_log_flushtime = 1000 * now
    /\ p1_reader_details_flushtime = 1000 * now
    /\ p1_reader_interval_flushtime = 1000 * now
    /\ html_file.complete
    /\ Len(lastten) = 3
    /\ lastten[1][1] < lastten[2][1]
    /\ lastten[2][1] < lastten[3][1]
    /\ csvfm = now
    /\ telegram_framenumber = 4


(***************************************************************************)
(* C35: every sample accepted into measurements is written to the weekly   *)
(* log once, in the order accepted: the lines of the weekly log followed   *)
(* by the samples not yet written are the samples accepted, also when a    *)
(* signal arrives inside a weekly flush.                                   *)
(***************************************************************************)
Accepts(d) == d.json /\ telegram_time(d) % 30 = 0

\* the samples accepted so far
Accepted ==
    [i \in 1..Len(SelectSeq(received, Accepts)) |->
        MeasurementRow(telegram_time(SelectSeq(received, Accepts)[i]),
                       Telegram(SelectSeq(received, Accepts)[i]))]

C35_WeeklyExactlyOnce == weekly_file \o measurements = Accepted


(***************************************************************************)
(* C36: the exporters flush on their own clock schedule whether or not a   *)
(* telegram arrives: when an aligned window [k*P, k*P + threshold) begins  *)
(* more than P/4 after the exporter's last flush, the exporter flushes in  *)
(* that window, also when the window has begun and ended between two turns *)
(* of the loop, that is with no telegram received while it lasted.         *)
(***************************************************************************)
\* the windows of period P that begin after the previous turn has made its
\* tests and are over when this turn reads the clock
Passed(P, threshold) ==
    {k \in (now \div P)..(now' \div P) :
        now + ReadWait < k * P /\ k * P + threshold <= now'}

\* the flush time is a time of window k
FlushedIn(k, P, threshold, flushtime) ==
    1000 * k * P <= flushtime /\ flushtime < 1000 * (k * P + threshold)

OnSchedule(P, threshold, last, flushtime) ==
    \A k \in Passed(P, threshold) :
        4 * (1000 * k * P - last) > 1000 * P => FlushedIn(k, P, threshold, flushtime)

C36_FlushWithoutArrival ==
    [][Turned =>
        /\ OnSchedule(300, 5, p1_reader_details_flushtime, p1_reader_details_flushtime')
        /\ OnSchedule(30, 2, html_report_flushtime, html_report_flushtime')
        /\ OnSchedule(30, 5, weekly_log_flushtime, weekly_log_flushtime')
        /\ OnSchedule(1800, 5, p1_reader_interval_flushtime, p1_reader_interval_flushtime')]_vars

=============================================================================
